---------------------------- MODULE Spec2Model ----------------------------
(***************************************************************************)
(* CTA-DEFACE: DICOM -> NIfTI -> external defacing tool -> NIfTI -> DICOM. *)
(*                                                                         *)
(* State machines of the pipeline:                                         *)
(*   SpecBatch  the orchestration of cta_deface_pipeline_multi2.main /     *)
(*              process_case and of cta_deface_pipeline_full.main          *)
(*   SpecSel    run_cta_deface followed by find_defaced_nifti              *)
(*   SpecRec    dicom_to_nifti / nifti_to_dicom_fullref (series choice,    *)
(*              slice axis, rotation, slice reinjection)                   *)
(* Single calls of one function on bounded arguments:                      *)
(*   SpecRot    _determine_best_rotation                                   *)
(*   SpecInj    reinjection: nifti_to_dicom_fullref, convert.nifti_to_dicom *)
(*   SpecDisc   find_case_dirs                                             *)
(*   SpecExp    the file name dicom_to_nifti writes                        *)
(*   SpecCat    load_dicom_series_groups and sorted_dicom_files            *)
(*   SpecTool   main of run_CTA-DEFACE.py                                  *)
(*   SpecWork   the working directories main / process_case set up         *)
(* The variables of the machines that a specification does not move keep   *)
(* their idle values.                                                      *)
(***************************************************************************)
EXTENDS Integers, Sequences, FiniteSets, TLC

VARIABLES
    \* ---- orchestration (SpecBatch)
    prog,        \* "multi2" | "full": which pipeline script runs
    cases,       \* the list find_case_dirs returned (case labels)
    failAt,      \* per case: the step of its pipeline that raises, or "none"
    archive,     \* multi2: --nifti-root-out given
    keep,        \* full: --keep-intermediate given
    pc,          \* position of the script
    idx,         \* index into cases of the case being processed
    attempted,   \* indices of the cases process_case was called for
    ended,       \* indices of the cases whose processing ended
    stepLog,     \* steps executed so far, <<case index, step>>
    workDirs,    \* working directories existing on disk
    mainStatus,  \* "running" | "finished" | "raised"
    \* ---- external tool invocation and output selection (SpecSel)
    variant,       \* "multi2" | "full": whose run_cta_deface / selector runs
    scriptPresent, \* run_CTA-DEFACE.py exists next to the pipeline script
    nifti_input,   \* base name of the exported volume in nifti_in
    inVol,         \* the exported volume
    outFiles,      \* nifti_out: base name -> volume
    staleNames,    \* names present in nifti_out before the call
    written,       \* names the external process wrote during the call
    rc,            \* exit status of the external process (-1: not run)
    selPc,         \* "start" | "select" | "done"
    invoked,       \* outcome of run_cta_deface: "none" | "ok" | "raise"
    selResult,     \* outcome of the selector
    \* ---- series choice and slice reinjection (SpecRec)
    groups,      \* the series catalog: per series, its header-only datasets in order
    arr,         \* the volume handed to nifti_to_dicom_fullref
    volKind,     \* "none" | "export" | "modified"
    exported,    \* index of the series dicom_to_nifti exported (0: none)
    outDicom,    \* the output directory: file name -> dataset written
    recPc,       \* "start" | "exported" | "modified" | "done"
    recResult,   \* outcome of nifti_to_dicom_fullref
    caseDir,     \* case_dicom_dir, a path under root_in
    dicomOutDir, \* dicom_out_dir, the directory outDicom lists
    \* ---- single calls of one function (SpecRot, SpecDisc, SpecExp, SpecCat, SpecTool)
    callFn,      \* the function called
    callIn,      \* its arguments and the files it reads
    callOut,     \* what it returned or raised, and the files it left
    callPc       \* "call" | "done"

batchVars == <<prog, cases, failAt, archive, keep, pc, idx, attempted, ended,
               stepLog, workDirs, mainStatus>>

selVars == <<variant, scriptPresent, nifti_input, inVol, outFiles, staleNames,
             written, rc, selPc, invoked, selResult>>

recVars == <<groups, arr, volKind, exported, outDicom, recPc, recResult, caseDir, dicomOutDir>>

callVars == <<callFn, callIn, callOut, callPc>>

vars == <<batchVars, selVars, recVars, callVars>>

\* ------------------------------------------------------------------------
\* Bounds
\* ------------------------------------------------------------------------
MaxCases == 3

\* Most files the external process leaves in nifti_out in one run.
MaxOutFiles == 2

\* Most series in one case directory, most slices in one series, and the
\* largest extent of a volume the external tool hands back.
MaxSeries == 2

MaxSlices == 3

MaxDim == 3

\* ------------------------------------------------------------------------
\* Generic helpers
\* ------------------------------------------------------------------------
Min(a, b) == IF a <= b THEN a ELSE b

Abs(a) == IF a < 0 THEN 0 - a ELSE a

NoCall == [status |-> "none"]

CallIdle == callFn = "idle" /\ callIn = NoCall /\ callOut = NoCall /\ callPc = "idle"

\* ========================================================================
\* Orchestration: cta_deface_pipeline_multi2.main / process_case and
\* cta_deface_pipeline_full.main
\* ========================================================================

\* The calls of one case that can raise, in the order process_case makes them.
Steps == <<"export", "invoke", "select", "reinject">>

StepSet == {Steps[i] : i \in 1..Len(Steps)}

\* The working directory of case i: os.path.join(work_root, case_label).
WorkDirOf(i) == <<"work_root", cases[i]>>

\* The single working directory of the single-directory pipeline.
FullWorkDir == <<"work_dir">>

BatchIdle ==
    /\ prog = "idle" /\ cases = <<>> /\ failAt = <<>> /\ archive = FALSE
    /\ keep = FALSE /\ pc = "idle" /\ idx = 0 /\ attempted = {} /\ ended = {}
    /\ stepLog = <<>> /\ workDirs = {} /\ mainStatus = "idle"

\* variant: the exception of a step is swallowed inside process_case, which
\* goes on to its last call
RaiseOutOfMain_swallowed ==
    /\ pc' = IF pc = "reinject" THEN "halt" ELSE "reinject"
    /\ mainStatus' = IF pc = "reinject" THEN "raised" ELSE mainStatus
    /\ ended' = IF pc = "reinject" THEN ended \cup {idx} ELSE ended

\* An exception leaving process_case: main calls it in a bare for loop, with
\* no try/except and no finally, so the exception leaves main as well and the
\* interpreter exits.
RaiseOutOfMain ==
    /\ pc' = "halt"
    /\ mainStatus' = "raised"
    /\ ended' = ended \cup {idx}

\* main: find_case_dirs, then SystemExit when no case was found.
M_FindCases ==
    /\ prog = "multi2" /\ pc = "main"
    /\ IF cases = <<>>
       THEN pc' = "halt" /\ mainStatus' = "raised" /\ idx' = idx
       ELSE pc' = "case" /\ mainStatus' = mainStatus /\ idx' = 1
    /\ UNCHANGED <<prog, cases, failAt, archive, keep, attempted, ended,
                   stepLog, workDirs>>
    /\ UNCHANGED <<selVars, recVars, callVars>>

\* process_case up to its first pipeline call: the working directory is
\* removed if present and created again, the output directories are made.
M_CaseSetup ==
    /\ prog = "multi2" /\ pc = "case"
    /\ attempted' = attempted \cup {idx}
    /\ workDirs' = (workDirs \ {WorkDirOf(idx)}) \cup {WorkDirOf(idx)}
    /\ stepLog' = Append(stepLog, <<idx, "setup">>)
    /\ pc' = "export"
    /\ UNCHANGED <<prog, cases, failAt, archive, keep, idx, ended, mainStatus>>
    /\ UNCHANGED <<selVars, recVars, callVars>>

\* After the last step of process_case: the function returns (it removes
\* nothing) and the for loop of main takes the next case.
M_ReturnToLoop ==
    /\ ended' = ended \cup {idx}
    /\ IF idx < Len(cases)
       THEN idx' = idx + 1 /\ pc' = "case" /\ mainStatus' = mainStatus
       ELSE idx' = idx /\ pc' = "halt" /\ mainStatus' = "finished"

\* One raising call of process_case: dicom_to_nifti, run_cta_deface,
\* find_defaced_nifti, nifti_to_dicom_fullref.
M_Call(step, next) ==
    /\ prog = "multi2" /\ pc = step
    /\ stepLog' = Append(stepLog, <<idx, step>>)
    /\ IF failAt[idx] = step
       THEN RaiseOutOfMain /\ idx' = idx
       ELSE IF next = "return"
            THEN M_ReturnToLoop
            ELSE pc' = next /\ UNCHANGED <<idx, ended, mainStatus>>
    /\ UNCHANGED <<prog, cases, failAt, archive, keep, attempted, workDirs>>
    /\ UNCHANGED <<selVars, recVars, callVars>>

M_Export ==
    /\ pc = "export"
    /\ M_Call("export", "invoke")

M_Invoke ==
    /\ pc = "invoke"
    /\ M_Call("invoke", "select")

\* After selection the optional archive copy is made in the same stretch of
\* process_case: it is a step of its own when --nifti-root-out was given.
M_Select ==
    /\ pc = "select"
    /\ M_Call("select", IF archive THEN "copy" ELSE "reinject")

M_ArchiveCopy ==
    /\ prog = "multi2" /\ pc = "copy"
    /\ stepLog' = Append(stepLog, <<idx, "copy">>)
    /\ pc' = "reinject"
    /\ UNCHANGED <<prog, cases, failAt, archive, keep, idx, attempted, ended,
                   workDirs, mainStatus>>
    /\ UNCHANGED <<selVars, recVars, callVars>>

M_Reinject ==
    /\ pc = "reinject"
    /\ M_Call("reinject", "return")

\* cta_deface_pipeline_full.main: one case, one working directory.
F_Setup ==
    /\ prog = "full" /\ pc = "main"
    /\ attempted' = attempted \cup {1}
    /\ idx' = 1
    /\ workDirs' = workDirs \cup {FullWorkDir}
    /\ stepLog' = Append(stepLog, <<1, "setup">>)
    /\ pc' = "export"
    /\ UNCHANGED <<prog, cases, failAt, archive, keep, ended, mainStatus>>
    /\ UNCHANGED <<selVars, recVars, callVars>>

\* One raising call of the single-directory main; no try/finally either.
F_Call(step, next) ==
    /\ prog = "full" /\ pc = step
    /\ stepLog' = Append(stepLog, <<idx, step>>)
    /\ IF failAt[idx] = step
       THEN RaiseOutOfMain
       ELSE pc' = next /\ UNCHANGED <<ended, mainStatus>>
    /\ UNCHANGED <<prog, cases, failAt, archive, keep, idx, attempted, workDirs>>
    /\ UNCHANGED <<selVars, recVars, callVars>>

F_Export ==
    /\ pc = "export"
    /\ F_Call("export", "invoke")

F_Invoke ==
    /\ pc = "invoke"
    /\ F_Call("invoke", "select")

F_Select ==
    /\ pc = "select"
    /\ F_Call("select", "reinject")

F_Reinject ==
    /\ pc = "reinject"
    /\ F_Call("reinject", "cleanup")

\* The cleanup at the end of main, reached only when nothing raised.
F_Cleanup ==
    /\ prog = "full" /\ pc = "cleanup"
    /\ workDirs' = IF keep THEN workDirs ELSE workDirs \ {FullWorkDir}
    /\ ended' = ended \cup {idx}
    /\ pc' = "halt"
    /\ mainStatus' = "finished"
    /\ stepLog' = Append(stepLog, <<idx, "cleanup">>)
    /\ UNCHANGED <<prog, cases, failAt, archive, keep, idx, attempted>>
    /\ UNCHANGED <<selVars, recVars, callVars>>

CaseLabels == <<"caseA", "caseB", "caseC", "caseD", "caseE">>

InitBatch ==
    /\ prog \in {"multi2", "full"}
    /\ \E n \in 0..MaxCases :
          /\ n <= Len(CaseLabels)
          /\ (prog = "full" => n = 1)
          /\ cases = [i \in 1..n |-> CaseLabels[i]]
          /\ failAt \in [1..n -> StepSet \cup {"none"}]
    /\ archive \in (IF prog = "multi2" THEN BOOLEAN ELSE {FALSE})
    /\ keep \in (IF prog = "full" THEN BOOLEAN ELSE {FALSE})
    /\ pc = "main" /\ idx = 0 /\ attempted = {} /\ ended = {}
    /\ stepLog = <<>>
    /\ workDirs \in (IF prog = "multi2" THEN {{}, {<<"work_root", "caseA">>}} ELSE {{}})
    /\ mainStatus = "running"

NextBatch ==
    \/ M_FindCases
    \/ M_CaseSetup
    \/ M_Export
    \/ M_Invoke
    \/ M_Select
    \/ M_ArchiveCopy
    \/ M_Reinject
    \/ F_Setup
    \/ F_Export
    \/ F_Invoke
    \/ F_Select
    \/ F_Reinject
    \/ F_Cleanup

\* ========================================================================
\* File names (character sequences) and volumes
\* ========================================================================
S_a == <<"a">>

S_ab == <<"a", "b">>

S_0000 == <<"_", "0", "0", "0", "0">>

S_mask == <<"_", "m", "a", "s", "k">>

S_MASK == <<"_", "M", "A", "S", "K">>

S_defaced == <<"_", "d", "e", "f", "a", "c", "e", "d">>

W_mask == <<"m", "a", "s", "k">>

W_defaced == <<"d", "e", "f", "a", "c", "e", "d">>

W_umask == <<"_", "m", "a", "s", "k">>

ExtNii == <<".", "n", "i", "i">>

ExtNiiGz == <<".", "n", "i", "i", ".", "g", "z">>

PlansJson == <<"p", "l", "a", "n", "s", ".", "j", "s", "o", "n">>

\* str.endswith / str.startswith / the `in` operator on strings
EndsWith(s, suf) ==
    /\ Len(suf) <= Len(s)
    /\ SubSeq(s, Len(s) - Len(suf) + 1, Len(s)) = suf

StartsWith(s, pre) ==
    /\ Len(pre) <= Len(s)
    /\ SubSeq(s, 1, Len(pre)) = pre

Contains(s, sub) ==
    \E i \in 1..(Len(s) - Len(sub) + 1) : SubSeq(s, i, i + Len(sub) - 1) = sub

\* s[:-n]
DropLast(s, n) == SubSeq(s, 1, Len(s) - n)

LowerChar(c) ==
    CASE c = "M" -> "m"
      [] c = "A" -> "a"
      [] c = "S" -> "s"
      [] c = "K" -> "k"
      [] OTHER -> c

\* str.lower
Lower(s) == [i \in 1..Len(s) |-> LowerChar(s[i])]

\* for suffix in (".nii.gz", ".nii"): if root.endswith(suffix): root = root[:-len(suffix)]
StripNiiSuffixes(name) ==
    LET r1 == IF EndsWith(name, ExtNiiGz) THEN DropLast(name, Len(ExtNiiGz)) ELSE name
    IN  IF EndsWith(r1, ExtNii) THEN DropLast(r1, Len(ExtNii)) ELSE r1

\* in_root: the input base name without extension and without a trailing _0000
InRoot(in_base) ==
    LET r == StripNiiSuffixes(in_base)
    IN  IF EndsWith(r, S_0000) THEN DropLast(r, 5) ELSE r

\* glob "*.nii*" over base names (a leading dot is never matched by "*")
GlobNiiStar(name) == name # <<>> /\ name[1] # "." /\ Contains(name, ExtNii)

\* glob "*.nii.gz" + glob "*.nii"
GlobNiiGzOrNii(name) ==
    /\ name # <<>> /\ name[1] # "."
    /\ (EndsWith(name, ExtNiiGz) \/ EndsWith(name, ExtNii))

\* A volume-format file name, as the specification names the format.
IsVolumeName(name) == EndsWith(name, ExtNiiGz) \/ EndsWith(name, ExtNii)

\* A volume: its array shape and its voxels in storage order.
Vol(shape, vox) == [shape |-> shape, vox |-> vox]

\* int((np.abs(arr_in - arr_def) != 0).sum()) for arrays of one shape
NDiff(a, b) == Cardinality({i \in 1..Len(a.vox) : Abs(a.vox[i] - b.vox[i]) # 0})

\* ========================================================================
\* External Tool Invoker and Output Selector
\* ========================================================================
NoResult == [status |-> "none"]

RaiseResult(e) == [status |-> "raise", err |-> e]

\* The file, if any, in a one-element set
TheOne(S) == CHOOSE x \in S : TRUE

\* The try block of find_defaced_nifti raises RuntimeError when the shapes are
\* equal and no voxel differs.
CompareRaises(a, b) == a.shape = b.shape /\ NDiff(a, b) = 0

\* variant: the voxel difference is computed whatever the shapes are
TryCompare_anyshape(a, b) == IF NDiff(a, b) = 0 THEN "warned" ELSE "compared"

\* try: ... except Exception as e: print WARNING.  The handler catches every
\* exception of the block, the RuntimeError of the comparison included, and
\* the function goes on to its return statement.  The difference is computed
\* in the branch of equal shapes only; the other branch prints and goes on.
TryCompare(a, b) ==
    IF a.shape # b.shape THEN "skipped"
    ELSE IF CompareRaises(a, b) THEN "warned" ELSE "compared"

\* The tiers of find_defaced_nifti over the base names of nifti_out.
AllNii(files) == {f \in DOMAIN files : GlobNiiStar(f)}

DefacedNamed(files) ==
    {f \in AllNii(files) : Contains(Lower(f), W_defaced) /\ ~Contains(Lower(f), W_mask)}

NonMask(files) == {f \in AllNii(files) : ~Contains(Lower(f), W_mask)}

\* mutant: the "defaced" tier is ignored
TierCandidates_nomarker(files) == NonMask(files)

TierCandidates(files) ==
    IF DefacedNamed(files) # {} THEN DefacedNamed(files) ELSE NonMask(files)

Preferred(files, in_base) ==
    {f \in TierCandidates(files) : StartsWith(StripNiiSuffixes(f), InRoot(in_base))}

\* mutant: no narrowing by the input stem
FinalCandidates_nonarrow(files, in_base) == TierCandidates(files)

FinalCandidates(files, in_base) ==
    IF Preferred(files, in_base) # {} THEN Preferred(files, in_base)
    ELSE TierCandidates(files)

find_defaced_nifti(files, in_base, in_vol) ==
    IF AllNii(files) = {} THEN RaiseResult("NoNifti")
    ELSE IF TierCandidates(files) = {} THEN RaiseResult("OnlyMasks")
    ELSE IF Cardinality(FinalCandidates(files, in_base)) > 1 THEN RaiseResult("Ambiguous")
    ELSE LET chosen == TheOne(FinalCandidates(files, in_base))
         IN  [status |-> "ok", chosen |-> chosen,
              check |-> TryCompare(in_vol, files[chosen])]

\* cta_deface_pipeline_full.find_single_nii
find_single_nii(files) ==
    LET all_nii == {f \in DOMAIN files : GlobNiiGzOrNii(f)}
        candidates == {f \in all_nii : ~Contains(f, W_umask)}
    IN  IF all_nii = {} THEN RaiseResult("NoNifti")
        ELSE IF candidates = {} THEN RaiseResult("OnlyMasks")
        ELSE IF Cardinality(candidates) > 1 THEN RaiseResult("Ambiguous")
        ELSE [status |-> "ok", chosen |-> TheOne(candidates), check |-> "none"]

\* The names the external process may write, and what it may write in them.
OutNames ==
    {s \o t \o e : s \in {S_a, S_ab}, t \in {<<>>, S_mask, S_defaced},
                   e \in {ExtNiiGz, ExtNii}}
    \cup {PlansJson, S_a \o S_MASK \o ExtNiiGz}

InputNames == {S_a \o S_0000 \o ExtNiiGz, S_ab \o S_0000 \o ExtNiiGz}

InputVolume == Vol(<<2, 1, 1>>, <<3, 4>>)

\* Identical to the input, one voxel changed, another shape.
OutVolumes(v) == {v, [v EXCEPT !.vox[1] = 0], Vol(<<1, 1, 2>>, v.vox)}

EmptyDir == [n \in {} |-> InputVolume]

\* Files of a written on top of the files of b.
Overlay(a, b) ==
    [n \in (DOMAIN a) \cup (DOMAIN b) |-> IF n \in DOMAIN a THEN a[n] ELSE b[n]]

\* What one run of the external process can leave: any exit status and any
\* few files.
ToolRuns ==
    {[rc |-> r, files |-> f] :
        r \in {0, 1},
        f \in UNION {[W -> OutVolumes(InputVolume)] :
                        W \in {X \in SUBSET OutNames : Cardinality(X) <= MaxOutFiles}}}

\* mutant: a non-zero exit status is treated as failure
run_cta_deface_strict(before, present, run) ==
    IF ~present THEN [outcome |-> "raise", files |-> before, rc |-> -1, ran |-> FALSE]
    ELSE LET after == Overlay(run.files, EmptyDir)
         IN  [outcome |-> IF run.rc # 0 \/ {f \in DOMAIN after : GlobNiiStar(f)} = {}
                          THEN "raise" ELSE "ok",
              files |-> after, rc |-> run.rc, ran |-> TRUE]

\* multi2 run_cta_deface: the script check, rmtree + makedirs of nifti_out,
\* subprocess.run, the exit status only warned about, glob "*.nii*".
run_cta_deface(before, present, run) ==
    IF ~present THEN [outcome |-> "raise", files |-> before, rc |-> -1, ran |-> FALSE]
    ELSE LET after == Overlay(run.files, EmptyDir)
         IN  [outcome |-> IF {f \in DOMAIN after : GlobNiiStar(f)} = {}
                          THEN "raise" ELSE "ok",
              files |-> after, rc |-> run.rc, ran |-> TRUE]

\* full run_cta_deface: nifti_out is not cleaned; glob "*.nii.gz" + "*.nii".
run_cta_deface_full(before, present, run) ==
    IF ~present THEN [outcome |-> "raise", files |-> before, rc |-> -1, ran |-> FALSE]
    ELSE LET after == Overlay(run.files, before)
         IN  [outcome |-> IF {f \in DOMAIN after : GlobNiiGzOrNii(f)} = {}
                          THEN "raise" ELSE "ok",
              files |-> after, rc |-> run.rc, ran |-> TRUE]

SelIdle ==
    /\ variant = "idle" /\ scriptPresent = FALSE /\ nifti_input = <<>>
    /\ inVol = InputVolume /\ outFiles = EmptyDir /\ staleNames = {}
    /\ written = {} /\ rc = -1 /\ selPc = "idle" /\ invoked = "none"
    /\ selResult = NoResult

InvokeEffect(res, run) ==
    /\ outFiles' = res.files
    /\ rc' = res.rc
    /\ written' = IF res.ran THEN DOMAIN run.files ELSE {}
    /\ invoked' = res.outcome
    /\ selPc' = IF res.outcome = "ok" THEN "select" ELSE "done"
    /\ UNCHANGED <<variant, scriptPresent, nifti_input, inVol, staleNames, selResult>>
    /\ UNCHANGED <<batchVars, recVars, callVars>>

Sel_Invoke ==
    /\ variant = "multi2" /\ selPc = "start"
    /\ \E run \in ToolRuns :
          InvokeEffect(run_cta_deface(outFiles, scriptPresent, run), run)

Sel_InvokeFull ==
    /\ variant = "full" /\ selPc = "start"
    /\ \E run \in ToolRuns :
          InvokeEffect(run_cta_deface_full(outFiles, scriptPresent, run), run)

Sel_Select ==
    /\ variant = "multi2" /\ selPc = "select"
    /\ selResult' = find_defaced_nifti(outFiles, nifti_input, inVol)
    /\ selPc' = "done"
    /\ UNCHANGED <<variant, scriptPresent, nifti_input, inVol, outFiles,
                   staleNames, written, rc, invoked>>
    /\ UNCHANGED <<batchVars, recVars, callVars>>

Sel_SelectFull ==
    /\ variant = "full" /\ selPc = "select"
    /\ selResult' = find_single_nii(outFiles)
    /\ selPc' = "done"
    /\ UNCHANGED <<variant, scriptPresent, nifti_input, inVol, outFiles,
                   staleNames, written, rc, invoked>>
    /\ UNCHANGED <<batchVars, recVars, callVars>>

StaleDirs ==
    {EmptyDir,
     [n \in {S_a \o S_defaced \o ExtNiiGz} |-> [InputVolume EXCEPT !.vox[1] = 0]]}

InitSel ==
    /\ variant \in {"multi2", "full"}
    /\ scriptPresent \in BOOLEAN
    /\ nifti_input \in InputNames
    /\ inVol = InputVolume
    /\ outFiles \in StaleDirs
    /\ staleNames = DOMAIN outFiles
    /\ written = {} /\ rc = -1 /\ selPc = "start" /\ invoked = "none"
    /\ selResult = NoResult

NextSel ==
    \/ Sel_Invoke
    \/ Sel_InvokeFull
    \/ Sel_Select
    \/ Sel_SelectFull

\* ========================================================================
\* Series choice, rotation and slice reinjection
\* ========================================================================
\* process-wide rotation mode
ROTATION_MODE == "auto90"

\* The (Rows, Columns) grids of the series of a case directory.
Grids == {<<1, 1>>, <<2, 2>>, <<1, 2>>}

\* ---- planes: sequences of rows
Shape2(m) == <<Len(m), Len(m[1])>>

\* np.rot90(m, k=1): one counter-clockwise quarter turn
Rot90(m) ==
    LET R == Len(m)
        C == Len(m[1])
    IN  [i \in 1..C |-> [j \in 1..R |-> m[j][C + 1 - i]]]

RECURSIVE Rot90K(_, _)
Rot90K(m, k) == IF k = 0 THEN m ELSE Rot90K(Rot90(m), k - 1)

RECURSIVE SeqSum(_)
SeqSum(q) == IF q = <<>> THEN 0 ELSE Head(q) + SeqSum(Tail(q))

\* sum of diff * diff over two planes of one shape; np.mean divides it by the
\* number of elements, which is the same for every rotation compared
SqErr(a, b) ==
    SeqSum([i \in 1..Len(a) |->
              SeqSum([j \in 1..Len(a[i]) |-> (b[i][j] - a[i][j]) * (b[i][j] - a[i][j])])])

\* astype(int16) of an integer-valued array
AsInt16(x) == ((x + 32768) % 65536) - 32768

AsTypePlane(m) == [i \in 1..Len(m) |-> [j \in 1..Len(m[i]) |-> AsInt16(m[i][j])]]

\* ---- the slice files on disk and their header-only datasets
\* The stored pixel of series s, slice z at row r, column c: every pixel of a
\* case directory carries its own value.
OrigPixel(s, z, r, c) == 1000 * s + 100 * z + 10 * r + c

\* pydicom.dcmread(path).pixel_array of the file a dataset was read from
DiskPixels(ds) ==
    [r \in 1..ds.Rows |-> [c \in 1..ds.Columns |-> OrigPixel(ds.suid, ds.z, r, c)]]

\* The files of the odd-numbered series carry a transfer syntax in their file
\* meta, those of the even-numbered series none.
FileTransferSyntax(s) == IF s % 2 = 1 THEN "ExplicitVRLittleEndian" ELSE ""

\* pydicom.dcmread(f, stop_before_pixels=True): the header without PixelData
\* PixelVR is the VR of the PixelData element ("none" without the element),
\* TransferSyntaxUID the one of file_meta ("" when the file carries none).
HeaderOnly(s, z, grid) ==
    [file |-> <<s, z>>, suid |-> s, z |-> z, Rows |-> grid[1], Columns |-> grid[2],
     hasPixelData |-> FALSE, PixelData |-> <<>>,
     BitsAllocated |-> 16, PixelVR |-> "none",
     TransferSyntaxUID |-> FileTransferSyntax(s)]

\* One sorted series of the catalog load_dicom_series_groups returns.
SeriesOf(s, n, grid) == [z \in 1..n |-> HeaderOnly(s, z, grid)]

\* ---- volumes: shape and nested sequences at[i][j][k]
\* dicom_to_nifti: SimpleITK reads the series into an image indexed (x, y, z)
\* = (column, row, slice) and writes it as NIfTI; nibabel's get_fdata returns
\* the array in that index order, so arr[x][y][z] is the pixel of slice z at
\* row y, column x and arr.shape = (Columns, Rows, slices).
dicom_to_nifti(series) ==
    LET R == series[1].Rows
        C == series[1].Columns
        N == Len(series)
    IN  [shape |-> <<C, R, N>>,
         at |-> [x \in 1..C |-> [y \in 1..R |-> [z \in 1..N |->
                    DiskPixels(series[z])[y][x]]]]]

\* A volume handed back by the external tool: every voxel carries its own
\* value, none of them a stored pixel of the case.
ModVolume(d0, d1, d2) ==
    [shape |-> <<d0, d1, d2>>,
     at |-> [i \in 1..d0 |-> [j \in 1..d1 |-> [k \in 1..d2 |->
                5000 + 100 * i + 10 * j + k]]]]

\* np.moveaxis(arr, 2, 0)
MoveAxis20(v) ==
    [shape |-> <<v.shape[3], v.shape[1], v.shape[2]>>,
     at |-> [k \in 1..v.shape[3] |-> [i \in 1..v.shape[1] |-> [j \in 1..v.shape[2] |->
                v.at[i][j][k]]]]]

\* ---- series choice
\* first element of a list built in iteration order
First(S) == CHOOSE x \in S : \A y \in S : x <= y

CandidatesDim(g, d) == {s \in 1..Len(g) : Len(g[s]) = d}

SeriesDiff(g, s, dim0, dim2) == Min(Abs(Len(g[s]) - dim0), Abs(Len(g[s]) - dim2))

\* mutant: diff <= best_diff keeps the last series of smallest diff
ClosestSeries_last(g, dim0, dim2) ==
    CHOOSE s \in 1..Len(g) :
        \A t \in 1..Len(g) :
            /\ SeriesDiff(g, s, dim0, dim2) <= SeriesDiff(g, t, dim0, dim2)
            /\ (t > s => SeriesDiff(g, t, dim0, dim2) > SeriesDiff(g, s, dim0, dim2))

\* the loop keeping the first series of strictly smallest diff
ClosestSeries(g, dim0, dim2) ==
    CHOOSE s \in 1..Len(g) :
        \A t \in 1..Len(g) :
            /\ SeriesDiff(g, s, dim0, dim2) <= SeriesDiff(g, t, dim0, dim2)
            /\ (t < s => SeriesDiff(g, t, dim0, dim2) > SeriesDiff(g, s, dim0, dim2))

ClosestDim(n, dim0, dim2) == IF Abs(n - dim0) <= Abs(n - dim2) THEN 0 ELSE 2

\* mutant: a match on both dimensions takes the last dimension
choose_series_lastdim(g, dim0, dim2) ==
    LET c0 == CandidatesDim(g, dim0)
        c2 == CandidatesDim(g, dim2)
    IN  IF c0 # {} /\ c2 = {} THEN [suid |-> First(c0), dim |-> 0, branch |-> "dim0"]
        ELSE IF c2 # {} /\ c0 = {} THEN [suid |-> First(c2), dim |-> 2, branch |-> "dim2"]
        ELSE IF c0 # {} /\ c2 # {} THEN [suid |-> First(c2), dim |-> 2, branch |-> "both"]
        ELSE LET best == ClosestSeries(g, dim0, dim2)
             IN  [suid |-> best, dim |-> ClosestDim(Len(g[best]), dim0, dim2),
                  branch |-> "closest"]

choose_series(g, dim0, dim2) ==
    LET c0 == CandidatesDim(g, dim0)
        c2 == CandidatesDim(g, dim2)
    IN  IF c0 # {} /\ c2 = {} THEN [suid |-> First(c0), dim |-> 0, branch |-> "dim0"]
        ELSE IF c2 # {} /\ c0 = {} THEN [suid |-> First(c2), dim |-> 2, branch |-> "dim2"]
        ELSE IF c0 # {} /\ c2 # {} THEN [suid |-> First(c0), dim |-> 0, branch |-> "both"]
        ELSE LET best == ClosestSeries(g, dim0, dim2)
             IN  [suid |-> best, dim |-> ClosestDim(Len(g[best]), dim0, dim2),
                  branch |-> "closest"]

\* ---- rotation search
\* variant: the half turn is searched in every mode
AllowedKs_halfturn(mode) ==
    IF mode = "auto90" THEN <<0, 1, 2, 3>>
    ELSE IF mode = "auto_all" THEN <<0, 1, 2, 3>>
    ELSE <<>>

AllowedKs(mode) ==
    IF mode = "auto90" THEN <<0, 1, 3>>
    ELSE IF mode = "auto_all" THEN <<0, 1, 2, 3>>
    ELSE <<>>

\* variant: among equal errors the last rotation enumerated wins
determine_best_rotation_lasttie(sd, so, mode) ==
    IF mode = "none" THEN 0
    ELSE IF AllowedKs(mode) = <<>> THEN 0
    ELSE IF Shape2(sd) # Shape2(so) THEN 0
    ELSE LET ks == AllowedKs(mode)
             valid == {i \in 1..Len(ks) : Shape2(Rot90K(sd, ks[i])) = Shape2(so)}
             err(i) == SqErr(Rot90K(sd, ks[i]), so)
         IN  IF valid = {} THEN 0
             ELSE ks[CHOOSE i \in valid :
                        \A j \in valid :
                            /\ err(i) <= err(j)
                            /\ (j > i => err(j) > err(i))]

determine_best_rotation(sd, so, mode) ==
    IF mode = "none" THEN 0
    ELSE IF AllowedKs(mode) = <<>> THEN 0
    ELSE IF Shape2(sd) # Shape2(so) THEN 0
    ELSE LET ks == AllowedKs(mode)
             valid == {i \in 1..Len(ks) : Shape2(Rot90K(sd, ks[i])) = Shape2(so)}
             err(i) == SqErr(Rot90K(sd, ks[i]), so)
         IN  IF valid = {} THEN 0
             ELSE ks[CHOOSE i \in valid :
                        \A j \in valid :
                            /\ err(i) <= err(j)
                            /\ (j < i => err(j) > err(i))]

\* ---- slice reinjection
\* ds = ds_ref; ds.PixelData = slice_arr.tobytes(): the dataset of the catalog
\* itself receives the payload and is saved.
WithPixelData(ds, plane) ==
    [ds EXCEPT !.hasPixelData = TRUE, !.PixelData = plane, !.PixelVR = "OB or OW"]

\* prepare_dataset_for_write works on the dataset it is handed, in place
prepare_dataset_for_write(ds) ==
    LET fixed == IF ds.hasPixelData
                 THEN [ds EXCEPT !.PixelVR = IF ds.BitsAllocated <= 8 THEN "OB" ELSE "OW"]
                 ELSE ds
    IN  IF fixed.TransferSyntaxUID = ""
        THEN [fixed EXCEPT !.TransferSyntaxUID = "ImplicitVRLittleEndian"]
        ELSE fixed

\* variant: every rotated plane is accepted
ShapeMismatch_never(slice_arr, ds) == FALSE

\* "if slice_arr.shape != (ds.Rows, ds.Columns): raise RuntimeError"
ShapeMismatch(slice_arr, ds) == Shape2(slice_arr) # <<ds.Rows, ds.Columns>>

\* the slices left over are saved as the catalog holds them
CopyThrough(ds) == ds

nifti_to_dicom_fullref(vol, g) ==
    LET dim0 == vol.shape[1]
        dim2 == vol.shape[3]
        ch == choose_series(g, dim0, dim2)
        chosen_list == g[ch.suid]
        sf == IF ch.dim = 0 THEN vol ELSE MoveAxis20(vol)
        n_slices_nifti == sf.shape[1]
        n_slices_ref == Len(chosen_list)
        n_slices_update == Min(n_slices_nifti, n_slices_ref)
        \* sample_ref = pydicom.dcmread(chosen_list[0][0]): index 0 of the series
        sample_ref_index == 0
        sample_orig_slice == DiskPixels(chosen_list[sample_ref_index + 1])
        idx_mid == IF n_slices_update = 1 THEN 0 ELSE n_slices_update \div 2
        plane(i) == AsTypePlane(sf.at[i])
        best_k == determine_best_rotation(plane(idx_mid + 1), sample_orig_slice,
                                          ROTATION_MODE)
        rotated(i) == Rot90K(plane(i), best_k)
        bad == {i \in 1..n_slices_update : ShapeMismatch(rotated(i), chosen_list[i])}
        raised == bad # {}
        \* slices written before the loop raised, or all of the overlap
        updated == IF raised THEN 1..(First(bad) - 1) ELSE 1..n_slices_update
        copied == IF raised THEN {} ELSE (n_slices_update + 1)..n_slices_ref
        saved(i) == IF i \in updated
                    THEN prepare_dataset_for_write(WithPixelData(chosen_list[i], rotated(i)))
                    ELSE prepare_dataset_for_write(CopyThrough(chosen_list[i]))
    IN  [status |-> IF raised THEN "raise" ELSE "ok",
         suid |-> ch.suid, dim |-> ch.dim, branch |-> ch.branch, k |-> best_k,
         n_nifti |-> n_slices_nifti, n_update |-> n_slices_update,
         idx_mid |-> idx_mid, sample_ref_index |-> sample_ref_index,
         updated |-> updated, copied |-> copied,
         out |-> [f \in {chosen_list[i].file : i \in updated \cup copied} |->
                     saved(CHOOSE i \in updated \cup copied : chosen_list[i].file = f)],
         catalog |-> [g EXCEPT ![ch.suid] =
                         [i \in 1..n_slices_ref |->
                             IF i \in updated \cup copied THEN saved(i)
                             ELSE chosen_list[i]]]]

NoVolume == [shape |-> <<0, 0, 0>>, at |-> <<>>]

EmptyOut == [f \in {} |-> HeaderOnly(0, 0, <<1, 1>>)]

\* ---- the directories of one case
ROOT_IN == <<"root_in">>

ROOT_OUT == <<"root_out">>

\* os.path.relpath(path, start) for a path at or below start; the empty
\* sequence stands for "."
relpath(path, start) == SubSeq(path, Len(start) + 1, Len(path))

\* os.path.join(a, b)
join(a, b) == a \o b

\* variant: every case is written into the output root itself
DicomOutDir_flat(case_dicom_dir) == ROOT_OUT

\* process_case: rel = relpath(case_dicom_dir, root_in);
\* dicom_out_dir = join(root_out_dicom, rel)
DicomOutDir(case_dicom_dir) == join(ROOT_OUT, relpath(case_dicom_dir, ROOT_IN))

RecIdle ==
    /\ groups = <<>> /\ arr = NoVolume /\ volKind = "idle" /\ exported = 0
    /\ outDicom = EmptyOut /\ recPc = "idle" /\ recResult = NoResult
    /\ caseDir = <<>> /\ dicomOutDir = <<>>

\* dicom_to_nifti exports the first series id GDCM reports; which series of
\* the catalog that is, is not fixed by the catalog's own order.
Rec_Export ==
    /\ recPc = "start"
    /\ \E e \in 1..Len(groups) :
          /\ arr' = dicom_to_nifti(groups[e])
          /\ exported' = e
    /\ volKind' = "export"
    /\ recPc' = "exported"
    /\ dicomOutDir' = DicomOutDir(caseDir)
    /\ UNCHANGED <<groups, outDicom, recResult, caseDir>>
    /\ UNCHANGED <<batchVars, selVars, callVars>>

\* The external tool and the selector hand back a volume of any small shape.
Rec_Modify ==
    /\ recPc = "exported"
    /\ \E d0 \in 1..MaxDim, d1 \in 1..MaxDim, d2 \in 1..MaxDim :
          arr' = ModVolume(d0, d1, d2)
    /\ volKind' = "modified"
    /\ recPc' = "modified"
    /\ UNCHANGED <<groups, exported, outDicom, recResult, caseDir, dicomOutDir>>
    /\ UNCHANGED <<batchVars, selVars, callVars>>

Rec_Reinject ==
    /\ recPc \in {"exported", "modified"}
    /\ LET res == nifti_to_dicom_fullref(arr, groups)
       IN  /\ recResult' = [x \in (DOMAIN res) \ {"out", "catalog"} |-> res[x]]
           /\ outDicom' = res.out
           /\ groups' = res.catalog
    /\ recPc' = "done"
    /\ UNCHANGED <<arr, volKind, exported, caseDir, dicomOutDir>>
    /\ UNCHANGED <<batchVars, selVars, callVars>>

InitRec ==
    /\ \E grid \in Grids, ns \in 1..MaxSeries :
          \E counts \in [1..ns -> 1..MaxSlices] :
              groups = [s \in 1..ns |-> SeriesOf(s, counts[s], grid)]
    \* the case is the root itself or a subdirectory of it
    /\ caseDir \in {ROOT_IN, join(ROOT_IN, <<"caseA">>)}
    /\ (Len(groups) > 1 => caseDir # ROOT_IN)
    /\ dicomOutDir = <<>>
    /\ arr = NoVolume /\ volKind = "none" /\ exported = 0
    /\ outDicom = EmptyOut /\ recPc = "start" /\ recResult = NoResult

NextRec ==
    \/ Rec_Export
    \/ Rec_Modify
    \/ Rec_Reinject

\* ========================================================================
\* Single calls: _determine_best_rotation as nifti_to_dicom_fullref calls it
\* ========================================================================
MaxPix == 1

\* sample_orig_slice = None: the first file of the series has no pixel_array
NoPlane == <<>>

RotGrids == {<<1, 1>>, <<2, 2>>, <<1, 2>>, <<2, 1>>}

PlanesOf(grid) == [1..grid[1] -> [1..grid[2] -> 0..MaxPix]]

RotPlanes == UNION {PlanesOf(g) : g \in RotGrids}

\* the values ROTATION_MODE can be edited to, one of them not a known mode
RotModes == {"none", "auto90", "auto_all", "auto"}

\* nifti_to_dicom_fullref: "if sample_orig_slice is not None: ... else: best_k = 0"
best_k_of(sample_def_slice, sample_orig_slice, mode) ==
    IF sample_orig_slice # NoPlane
    THEN determine_best_rotation(sample_def_slice, sample_orig_slice, mode)
    ELSE 0

InitRot ==
    /\ callFn = "_determine_best_rotation"
    /\ \E mode \in RotModes, sd \in RotPlanes, so \in RotPlanes \cup {NoPlane} :
          callIn = [status |-> "args", mode |-> mode,
                    sample_def_slice |-> sd, sample_orig_slice |-> so]
    /\ callOut = NoCall
    /\ callPc = "call"

Rot_Call ==
    /\ callFn = "_determine_best_rotation"
    /\ callPc = "call"
    /\ callOut' = [status |-> "ok",
                   k |-> best_k_of(callIn.sample_def_slice, callIn.sample_orig_slice,
                                   callIn.mode)]
    /\ callPc' = "done"
    /\ UNCHANGED <<callFn, callIn>>
    /\ UNCHANGED <<batchVars, selVars, recVars>>

NextRot == Rot_Call

\* ========================================================================
\* Single calls: reinjection into one reference list, in the full-header
\* variant (cta_deface_pipeline_multi2) and in the converter variant
\* (cta_deface_convert)
\* ========================================================================
\* pydicom.dcmread(f) without stop_before_pixels: the dataset with its payload
FullRead(ds) ==
    [ds EXCEPT !.hasPixelData = TRUE, !.PixelData = DiskPixels(ds), !.PixelVR = "OW"]

\* IM_0001.dcm, IM_0002.dcm, ...: the output names of the converter variant
ImName(i) == <<0, i>>

\* cta_deface_convert.nifti_to_dicom on the list sorted_dicom_files returned
nifti_to_dicom(vol, ref_files) ==
    LET ref_ds_list == [i \in 1..Len(ref_files) |-> FullRead(ref_files[i])]
        n_slices_ref == Len(ref_ds_list)
        compatible == vol.shape[1] = n_slices_ref \/ vol.shape[3] = n_slices_ref
        dim == IF vol.shape[1] = n_slices_ref THEN 0 ELSE 2
        sf == IF dim = 0 THEN vol ELSE MoveAxis20(vol)
        plane(i) == AsTypePlane(sf.at[i])
        bad == {i \in 1..n_slices_ref : ShapeMismatch(plane(i), ref_ds_list[i])}
        raised == bad # {}
        saved_idx == IF raised THEN 1..(First(bad) - 1) ELSE 1..n_slices_ref
        \* ds = ds_ref.copy() with new UIDs, InstanceNumber = i + 1 and the payload
        new(i) == [ref_ds_list[i] EXCEPT !.file = ImName(i), !.suid = 0, !.z = i,
                                         !.PixelData = plane(i)]
    IN  IF ~compatible
        THEN [status |-> "raise", dim |-> 0, k |-> 0, n_update |-> 0,
              updated |-> {}, out |-> [f \in {} |-> ref_ds_list[1]]]
        ELSE [status |-> IF raised THEN "raise" ELSE "ok",
              dim |-> dim, k |-> 0, n_update |-> n_slices_ref, updated |-> saved_idx,
              out |-> [f \in {ImName(i) : i \in saved_idx} |-> new(f[2])]]

\* variant: the slice counts are never compared
SliceCountMismatch_never(n_slices_nifti, n_slices_ref) == FALSE

\* "if arr_slices_first.shape[0] != n_slices_ref: raise RuntimeError"
SliceCountMismatch(n_slices_nifti, n_slices_ref) == n_slices_nifti # n_slices_ref

\* cta_deface_pipeline_full.nifti_to_dicom_fullref: the series choice of the
\* batch pipeline, then the comparison of the slice counts, no rotation, and
\* the write loop over zip(chosen_list, arr_slices_first); a file name that
\* the list holds twice is saved twice, the later payload staying
full_nifti_to_dicom_fullref(vol, g) ==
    LET dim0 == vol.shape[1]
        dim2 == vol.shape[3]
        ch == choose_series(g, dim0, dim2)
        chosen_list == g[ch.suid]
        sf == IF ch.dim = 0 THEN vol ELSE MoveAxis20(vol)
        n_slices_nifti == sf.shape[1]
        n_slices_ref == Len(chosen_list)
        count_bad == SliceCountMismatch(n_slices_nifti, n_slices_ref)
        n_zip == Min(n_slices_nifti, n_slices_ref)
        plane(i) == AsTypePlane(sf.at[i])
        bad == {i \in 1..n_zip : ShapeMismatch(plane(i), chosen_list[i])}
        updated == IF count_bad THEN {}
                   ELSE IF bad # {} THEN 1..(First(bad) - 1) ELSE 1..n_zip
        last(f) == CHOOSE i \in updated :
                      /\ chosen_list[i].file = f
                      /\ \A j \in updated : chosen_list[j].file = f => j <= i
    IN  [status |-> IF count_bad \/ bad # {} THEN "raise" ELSE "ok",
         err |-> IF count_bad THEN "SliceCount"
                 ELSE IF bad # {} THEN "SliceShape" ELSE "none",
         suid |-> ch.suid, dim |-> ch.dim, branch |-> ch.branch, k |-> 0,
         n_nifti |-> n_slices_nifti,
         n_update |-> IF count_bad THEN 0 ELSE n_zip,
         updated |-> updated,
         out |-> [f \in {chosen_list[i].file : i \in updated} |->
                     WithPixelData(chosen_list[last(f)], plane(last(f)))]]

\* a series whose slice `odd` (0: none) has one row more than the others
SeriesOdd(s, n, grid, odd) ==
    [z \in 1..n |-> HeaderOnly(s, z, IF z = odd THEN <<grid[1] + 1, grid[2]>> ELSE grid)]

\* sorted_dicom_files globs "*.dcm" and then "*": a file named *.dcm is listed
\* twice, and the sort by InstanceNumber leaves the two entries side by side
ListedTwice(series) == [i \in 1..(2 * Len(series)) |-> series[(i + 1) \div 2]]

InitInj ==
    /\ callFn = "reinject"
    /\ \E variant_ \in {"multi2", "full", "convert"}, grid \in Grids, n \in 1..MaxSlices,
          d0 \in 1..MaxDim, d1 \in 1..MaxDim, d2 \in 1..MaxDim :
          \E odd \in 0..n, twice \in BOOLEAN :
              /\ (variant_ = "multi2" => ~twice)
              /\ callIn = [status |-> "args", variant |-> variant_,
                           chosen_list |-> IF twice
                                           THEN ListedTwice(SeriesOdd(1, n, grid, odd))
                                           ELSE SeriesOdd(1, n, grid, odd),
                           vol |-> ModVolume(d0, d1, d2)]
    /\ callOut = NoCall
    /\ callPc = "call"

Inj_FullRef ==
    /\ callFn = "reinject"
    /\ callPc = "call"
    /\ callIn.variant = "multi2"
    /\ LET res == nifti_to_dicom_fullref(callIn.vol, <<callIn.chosen_list>>)
       IN  callOut' = [x \in {"status", "dim", "k", "n_update", "updated", "out"} |-> res[x]]
    /\ callPc' = "done"
    /\ UNCHANGED <<callFn, callIn>>
    /\ UNCHANGED <<batchVars, selVars, recVars>>

Inj_FullRefFull ==
    /\ callFn = "reinject"
    /\ callPc = "call"
    /\ callIn.variant = "full"
    /\ LET res == full_nifti_to_dicom_fullref(callIn.vol, <<callIn.chosen_list>>)
       IN  callOut' = [x \in (DOMAIN res) \ {"suid"} |-> res[x]]
    /\ callPc' = "done"
    /\ UNCHANGED <<callFn, callIn>>
    /\ UNCHANGED <<batchVars, selVars, recVars>>

Inj_Convert ==
    /\ callFn = "reinject"
    /\ callPc = "call"
    /\ callIn.variant = "convert"
    /\ callOut' = nifti_to_dicom(callIn.vol, callIn.chosen_list)
    /\ callPc' = "done"
    /\ UNCHANGED <<callFn, callIn>>
    /\ UNCHANGED <<batchVars, selVars, recVars>>

NextInj ==
    \/ Inj_FullRef
    \/ Inj_FullRefFull
    \/ Inj_Convert

\* ========================================================================
\* Single calls: find_case_dirs on a directory tree
\* ========================================================================
MaxSubdirs == 2

\* The regular files a directory holds directly, by kind: "dcm" a file named
\* *.dcm, "readable" a file of another name that pydicom.dcmread(force=True)
\* reads, "unreadable" one on which it raises.
FileKindSets == {{}, {"dcm"}, {"readable"}, {"unreadable"}, {"dcm", "unreadable"}}

\* A subdirectory of the root: its own files, and whether it has a
\* subdirectory of its own that holds *.dcm files.
SubdirContents == [files : FileKindSets, nested : BOOLEAN]

RootPath == <<>>

SubPath(name) == <<name>>

dicom_has_files(d) == "dcm" \in d.files \/ "readable" \in d.files

\* sorted(os.listdir(root)): the names in ascending order; names are numbered
\* in their sort order
RECURSIVE SortedNames(_)
SortedNames(S) ==
    IF S = {} THEN <<>>
    ELSE LET least == CHOOSE x \in S : \A y \in S : x <= y
         IN  <<least>> \o SortedNames(S \ {least})

\* "Deduplicate while preserving order"
RECURSIVE Uniq(_, _)
Uniq(q, seen) ==
    IF q = <<>> THEN <<>>
    ELSE IF Head(q) \in seen THEN Uniq(Tail(q), seen)
    ELSE <<Head(q)>> \o Uniq(Tail(q), seen \cup {Head(q)})

\* variant: the root itself is never a case
find_case_dirs_subdirsonly(tree) ==
    LET names == SortedNames(DOMAIN tree.subdirs)
    IN  Uniq(SelectSeq([i \in 1..Len(names) |-> SubPath(names[i])],
                       LAMBDA p : dicom_has_files(tree.subdirs[p[1]])), {})

find_case_dirs(tree) ==
    LET names == SortedNames(DOMAIN tree.subdirs)
        case_dirs ==
            (IF dicom_has_files(tree) THEN <<RootPath>> ELSE <<>>)
            \o SelectSeq([i \in 1..Len(names) |-> SubPath(names[i])],
                         LAMBDA p : dicom_has_files(tree.subdirs[p[1]]))
    IN  Uniq(case_dirs, {})

InitDisc ==
    /\ callFn = "find_case_dirs"
    /\ \E rootFiles \in FileKindSets, present \in SUBSET (1..MaxSubdirs) :
          \E subdirs \in [present -> SubdirContents] :
              callIn = [status |-> "args",
                        tree |-> [files |-> rootFiles, subdirs |-> subdirs]]
    /\ callOut = NoCall
    /\ callPc = "call"

Disc_Call ==
    /\ callFn = "find_case_dirs"
    /\ callPc = "call"
    /\ callOut' = [status |-> "ok", cases |-> find_case_dirs(callIn.tree)]
    /\ callPc' = "done"
    /\ UNCHANGED <<callFn, callIn>>
    /\ UNCHANGED <<batchVars, selVars, recVars>>

NextDisc == Disc_Call

\* ========================================================================
\* Single calls: the file name dicom_to_nifti writes, in the pipelines and in
\* the converter
\* ========================================================================
SeriesIds == {S_a, S_ab}

\* reader.GetGDCMSeriesIDs(dicom_dir): the series identifiers, in its order
SeriesIdLists == UNION {[1..n -> SeriesIds] : n \in 0..MaxSeries}

\* output_path of the converter when it is not a directory
FileTargets ==
    {S_a \o ExtNiiGz, S_a \o S_0000 \o ExtNiiGz, S_a \o ExtNii, S_a,
     S_a \o S_0000, S_0000 \o ExtNiiGz}

\* cta_deface_pipeline_multi2.dicom_to_nifti and
\* cta_deface_pipeline_full.dicom_to_nifti
pipeline_dicom_to_nifti(series_ids) ==
    IF series_ids = <<>> THEN RaiseResult("NoSeries")
    ELSE [status |-> "ok",
          warned |-> Len(series_ids) > 1,
          series_id |-> series_ids[1],
          out_file |-> series_ids[1] \o S_0000 \o ExtNiiGz]

\* variant: the suffix is appended to every target file name
convert_dicom_to_nifti_always(series_ids, is_dir, output_path, nnunet_style) ==
    IF series_ids = <<>> THEN RaiseResult("NoSeries")
    ELSE [status |-> "ok",
          warned |-> Len(series_ids) > 1,
          series_id |-> series_ids[1],
          out_file |->
              IF is_dir
              THEN series_ids[1] \o (IF nnunet_style THEN S_0000 ELSE <<>>) \o ExtNiiGz
              ELSE IF nnunet_style
              THEN (IF EndsWith(output_path, ExtNiiGz)
                    THEN DropLast(output_path, 7) ELSE output_path)
                   \o S_0000 \o ExtNiiGz
              ELSE output_path]

\* cta_deface_convert.dicom_to_nifti(input_dir, output_path, nnunet_style)
convert_dicom_to_nifti(series_ids, is_dir, output_path, nnunet_style) ==
    IF series_ids = <<>> THEN RaiseResult("NoSeries")
    ELSE [status |-> "ok",
          warned |-> Len(series_ids) > 1,
          series_id |-> series_ids[1],
          out_file |->
              IF is_dir
              THEN series_ids[1] \o (IF nnunet_style THEN S_0000 ELSE <<>>) \o ExtNiiGz
              ELSE IF nnunet_style /\ ~EndsWith(output_path, S_0000 \o ExtNiiGz)
              THEN (IF EndsWith(output_path, ExtNiiGz)
                    THEN DropLast(output_path, 7) ELSE output_path)
                   \o S_0000 \o ExtNiiGz
              ELSE output_path]

InitExp ==
    /\ callFn = "dicom_to_nifti"
    /\ \E ids \in SeriesIdLists :
          \/ \E v \in {"multi2", "full"} :
                callIn = [status |-> "args", variant |-> v, series_ids |-> ids,
                          is_dir |-> TRUE, output_path |-> <<>>, nnunet_style |-> TRUE]
          \/ \E style \in BOOLEAN :
                \/ callIn = [status |-> "args", variant |-> "convert", series_ids |-> ids,
                             is_dir |-> TRUE, output_path |-> <<>>,
                             nnunet_style |-> style]
                \/ \E t \in FileTargets :
                      callIn = [status |-> "args", variant |-> "convert",
                                series_ids |-> ids, is_dir |-> FALSE,
                                output_path |-> t, nnunet_style |-> style]
    /\ callOut = NoCall
    /\ callPc = "call"

Exp_Pipeline ==
    /\ callFn = "dicom_to_nifti"
    /\ callPc = "call"
    /\ callIn.variant \in {"multi2", "full"}
    /\ callOut' = pipeline_dicom_to_nifti(callIn.series_ids)
    /\ callPc' = "done"
    /\ UNCHANGED <<callFn, callIn>>
    /\ UNCHANGED <<batchVars, selVars, recVars>>

Exp_Convert ==
    /\ callFn = "dicom_to_nifti"
    /\ callPc = "call"
    /\ callIn.variant = "convert"
    /\ callOut' = convert_dicom_to_nifti(callIn.series_ids, callIn.is_dir,
                                         callIn.output_path, callIn.nnunet_style)
    /\ callPc' = "done"
    /\ UNCHANGED <<callFn, callIn>>
    /\ UNCHANGED <<batchVars, selVars, recVars>>

NextExp ==
    \/ Exp_Pipeline
    \/ Exp_Convert

\* ========================================================================
\* Single calls: reading the slice files of one directory,
\* load_dicom_series_groups (cta_deface_pipeline_multi2) and
\* sorted_dicom_files (cta_deface_convert)
\* ========================================================================
MaxFiles == 3

\* What glob finds in the directory, one record per entry: a subdirectory or
\* a regular file; whether its name ends in .dcm; whether pydicom.dcmread
\* returns a dataset; the SeriesInstanceUID read (0: none); InstanceNumber
\* absent, present but empty, or an integer; ImagePositionPatient[2] if any.
Entry(isfile, dcm, parses, suid, instKind, inst, hasIpp, z) ==
    [isfile |-> isfile, dcm |-> dcm, parses |-> parses, suid |-> suid,
     instKind |-> instKind, inst |-> inst, hasIpp |-> hasIpp, z |-> z]

EntryKinds ==
    {Entry(FALSE, FALSE, FALSE, 0, "absent", 0, FALSE, 0),
     Entry(TRUE, TRUE, FALSE, 0, "absent", 0, FALSE, 0),
     Entry(TRUE, FALSE, TRUE, 0, "absent", 0, FALSE, 0),
     Entry(TRUE, TRUE, TRUE, 1, "int", 1, FALSE, 0),
     Entry(TRUE, TRUE, TRUE, 1, "int", 2, TRUE, 1),
     Entry(TRUE, FALSE, TRUE, 1, "int", 1, TRUE, 2),
     Entry(TRUE, TRUE, TRUE, 2, "int", 1, FALSE, 0),
     Entry(TRUE, TRUE, TRUE, 1, "empty", 0, TRUE, 2),
     Entry(TRUE, FALSE, TRUE, 1, "absent", 0, FALSE, 0)}

\* A directory: its entries in name order; an entry is known by its index.
Directories == UNION {[1..n -> EntryKinds] : n \in 0..MaxFiles}

Indices(d) == [i \in 1..Len(d) |-> i]

\* list.sort(key=...): stable, ascending; keys[i] is the key of entry i
\* variant: an element goes in front of the elements of equal key
RECURSIVE InsertByKey_before(_, _, _)
InsertByKey_before(x, q, keys) ==
    IF q = <<>> THEN <<x>>
    ELSE IF keys[Head(q)] < keys[x]
    THEN <<Head(q)>> \o InsertByKey_before(x, Tail(q), keys)
    ELSE <<x>> \o q

RECURSIVE InsertByKey(_, _, _)
InsertByKey(x, q, keys) ==
    IF q = <<>> THEN <<x>>
    ELSE IF keys[Head(q)] <= keys[x] THEN <<Head(q)>> \o InsertByKey(x, Tail(q), keys)
    ELSE <<x>> \o q

RECURSIVE StableSort(_, _)
StableSort(q, keys) ==
    IF q = <<>> THEN <<>>
    ELSE InsertByKey(q[Len(q)], StableSort(SubSeq(q, 1, Len(q) - 1), keys), keys)

\* sort_key of load_dicom_series_groups: int(InstanceNumber), else
\* float(ImagePositionPatient[2]), else 0; a failing conversion falls through
sort_key(e) ==
    IF e.instKind = "int" THEN e.inst
    ELSE IF e.hasIpp THEN e.z
    ELSE 0

\* sort_key of sorted_dicom_files: int(ds.InstanceNumber) is not guarded
convert_sort_key_raises(e) == e.instKind = "empty"

\* dict keys in insertion order: the series in order of their first file
RECURSIVE FirstSeen(_, _)
FirstSeen(q, seen) ==
    IF q = <<>> THEN <<>>
    ELSE IF Head(q) \in seen THEN FirstSeen(Tail(q), seen)
    ELSE <<Head(q)>> \o FirstSeen(Tail(q), seen \cup {Head(q)})

load_dicom_series_groups(d) ==
    LET files == SelectSeq(Indices(d), LAMBDA i : d[i].isfile)
        kept == SelectSeq(files, LAMBDA i : d[i].parses /\ d[i].suid # 0)
        keys == [i \in 1..Len(d) |-> sort_key(d[i])]
        suids == {d[kept[j]].suid : j \in 1..Len(kept)}
    IN  IF kept = <<>> THEN RaiseResult("NoSeries")
        ELSE [status |-> "ok", read |-> kept,
              order |-> FirstSeen([j \in 1..Len(kept) |-> d[kept[j]].suid], {}),
              groups |-> [s \in suids |->
                             StableSort(SelectSeq(kept, LAMBDA i : d[i].suid = s), keys)]]

\* load_dicom_series_groups of cta_deface_pipeline_full: the two glob results
\* are concatenated as they are, nothing tests os.path.isfile, and sort_key
\* converts InstanceNumber without a guard
full_load_dicom_series_groups(d) ==
    LET files == SelectSeq(Indices(d), LAMBDA i : d[i].dcm) \o Indices(d)
        kept == SelectSeq(files, LAMBDA i : d[i].parses /\ d[i].suid # 0)
        keys == [i \in 1..Len(d) |-> sort_key(d[i])]
        suids == {d[kept[j]].suid : j \in 1..Len(kept)}
    IN  IF kept = <<>> THEN RaiseResult("NoSeries")
        ELSE IF \E j \in 1..Len(kept) : convert_sort_key_raises(d[kept[j]])
        THEN RaiseResult("TypeError")
        ELSE [status |-> "ok", read |-> kept,
              order |-> FirstSeen([j \in 1..Len(kept) |-> d[kept[j]].suid], {}),
              groups |-> [s \in suids |->
                             StableSort(SelectSeq(kept, LAMBDA i : d[i].suid = s), keys)]]

\* sorted_dicom_files: every entry "*.dcm" finds, then every entry "*" finds;
\* dcmread raises on a subdirectory and the entry is skipped like a file that
\* cannot be read.  The one list it returns is held as series 0.
convert_sorted_dicom_files(d) ==
    LET files == SelectSeq(Indices(d), LAMBDA i : d[i].dcm) \o Indices(d)
        ds_list == SelectSeq(files, LAMBDA i : d[i].parses)
        keys == [i \in 1..Len(d) |-> sort_key(d[i])]
    IN  IF ds_list = <<>> THEN RaiseResult("NoReadable")
        ELSE IF \E j \in 1..Len(ds_list) : convert_sort_key_raises(d[ds_list[j]])
        THEN RaiseResult("TypeError")
        ELSE [status |-> "ok", read |-> ds_list, order |-> <<0>>,
              groups |-> [s \in {0} |-> StableSort(ds_list, keys)]]

InitCat ==
    /\ callFn = "load_series"
    /\ \E v \in {"multi2", "full", "convert"}, d \in Directories :
          callIn = [status |-> "args", variant |-> v, dir |-> d]
    /\ callOut = NoCall
    /\ callPc = "call"

Cat_LoadGroups ==
    /\ callFn = "load_series"
    /\ callPc = "call"
    /\ callIn.variant = "multi2"
    /\ callOut' = load_dicom_series_groups(callIn.dir)
    /\ callPc' = "done"
    /\ UNCHANGED <<callFn, callIn>>
    /\ UNCHANGED <<batchVars, selVars, recVars>>

Cat_LoadGroupsFull ==
    /\ callFn = "load_series"
    /\ callPc = "call"
    /\ callIn.variant = "full"
    /\ callOut' = full_load_dicom_series_groups(callIn.dir)
    /\ callPc' = "done"
    /\ UNCHANGED <<callFn, callIn>>
    /\ UNCHANGED <<batchVars, selVars, recVars>>

Cat_SortedFiles ==
    /\ callFn = "load_series"
    /\ callPc = "call"
    /\ callIn.variant = "convert"
    /\ callOut' = convert_sorted_dicom_files(callIn.dir)
    /\ callPc' = "done"
    /\ UNCHANGED <<callFn, callIn>>
    /\ UNCHANGED <<batchVars, selVars, recVars>>

NextCat ==
    \/ Cat_LoadGroups
    \/ Cat_LoadGroupsFull
    \/ Cat_SortedFiles

\* ========================================================================
\* Single calls: main of run_CTA-DEFACE.py on an input and an output folder
\* ========================================================================
\* ord(c) of the characters file names are made of here
Ord(c) ==
    CASE c = "." -> 46
      [] c = "0" -> 48
      [] c = "A" -> 65
      [] c = "K" -> 75
      [] c = "M" -> 77
      [] c = "S" -> 83
      [] c = "_" -> 95
      [] c = "a" -> 97
      [] c = "b" -> 98
      [] c = "c" -> 99
      [] c = "d" -> 100
      [] c = "e" -> 101
      [] c = "f" -> 102
      [] c = "g" -> 103
      [] c = "i" -> 105
      [] c = "j" -> 106
      [] c = "k" -> 107
      [] c = "l" -> 108
      [] c = "m" -> 109
      [] c = "n" -> 110
      [] c = "o" -> 111
      [] c = "p" -> 112
      [] c = "s" -> 115
      [] c = "z" -> 122

\* s < t for two strings
RECURSIVE StrLess(_, _)
StrLess(s, t) ==
    IF t = <<>> THEN FALSE
    ELSE IF s = <<>> THEN TRUE
    ELSE IF Head(s) = Head(t) THEN StrLess(Tail(s), Tail(t))
    ELSE Ord(Head(s)) < Ord(Head(t))

\* sorted(...) of a set of file names
RECURSIVE SortedFiles(_)
SortedFiles(S) ==
    IF S = {} THEN <<>>
    ELSE LET least == CHOOSE x \in S : \A y \in S \ {x} : StrLess(x, y)
         IN  <<least>> \o SortedFiles(S \ {least})

\* ensure_nnunet_naming: every *.nii.gz of the input folder that does not end
\* in _0000.nii.gz gets a link <stem>_0000.nii.gz unless that name exists
ensure_nnunet_naming(input) ==
    input \cup {DropLast(n, 7) \o S_0000 \o ExtNiiGz :
                   n \in {m \in input : /\ EndsWith(m, ExtNiiGz)
                                        /\ ~EndsWith(m, S_0000 \o ExtNiiGz)}}

\* the cases nnUNetv2_predict finds in the input folder
ToolCases(input) ==
    {DropLast(n, 12) : n \in {m \in input : EndsWith(m, S_0000 \o ExtNiiGz)}}

\* lines 154-201 as they are indented: the loop body is the test alone, and
\* what follows the loop runs once, on the last value of pred_file
post_process(input, output) ==
    LET preds == SortedFiles({n \in output : EndsWith(n, ExtNiiGz) /\ n[1] # "."})
    IN  IF preds = <<>>
        THEN [status |-> "raise", err |-> "UnboundLocalError", output |-> output]
        ELSE LET name == preds[Len(preds)]
                 case_root == IF EndsWith(name, ExtNiiGz) THEN DropLast(name, 7)
                              ELSE IF EndsWith(name, ExtNii) THEN DropLast(name, 4)
                              ELSE name
                 mask_output == case_root \o S_mask \o ExtNiiGz
                 original_image == case_root \o S_0000 \o ExtNiiGz
                 defaced_output == case_root \o S_defaced \o ExtNiiGz
             IN  [status |-> "ok", err |-> "none",
                  output |-> ((output \cup {mask_output})
                                 \cup (IF original_image \in input
                                       THEN {defaced_output} ELSE {}))
                             \ {name}]

\* main(input_folder, output_folder); run is what nnUNetv2_predict did: its
\* exit status and the cases it wrote a prediction for
tool_main(input, output, run) ==
    LET named == ensure_nnunet_naming(input)
        after == output \cup {c \o ExtNiiGz : c \in run.predicted}
        post == post_process(named, after)
    IN  IF run.rc # 0
        THEN [status |-> "exit", err |-> "none", input |-> named,
              after_inference |-> after, output |-> after]
        ELSE [status |-> post.status, err |-> post.err, input |-> named,
              after_inference |-> after, output |-> post.output]

ToolInputs == {S_a \o S_0000 \o ExtNiiGz, S_ab \o S_0000 \o ExtNiiGz, S_a \o ExtNiiGz}

\* what an earlier run may have left in the output folder
ToolLeftovers ==
    {{}, {S_a \o S_mask \o ExtNiiGz}, {S_ab \o S_mask \o ExtNiiGz},
     {S_ab \o S_defaced \o ExtNiiGz}, {PlansJson}}

InitTool ==
    /\ callFn = "run_CTA-DEFACE.main"
    /\ \E input \in SUBSET ToolInputs, output \in ToolLeftovers, rc_ \in {0, 1} :
          \E predicted \in SUBSET ToolCases(ensure_nnunet_naming(input)) :
              callIn = [status |-> "args", input |-> input, output |-> output,
                        run |-> [rc |-> rc_, predicted |-> predicted]]
    /\ callOut = NoCall
    /\ callPc = "call"

Tool_Main ==
    /\ callFn = "run_CTA-DEFACE.main"
    /\ callPc = "call"
    /\ callOut' = tool_main(callIn.input, callIn.output, callIn.run)
    /\ callPc' = "done"
    /\ UNCHANGED <<callFn, callIn>>
    /\ UNCHANGED <<batchVars, selVars, recVars>>

NextTool == Tool_Main

\* ========================================================================
\* The working directories of the cases of one batch run: main's loop over
\* find_case_dirs and the first lines of process_case
\* ========================================================================
WORK_ROOT == <<"work_root">>

\* process_case: rel = relpath(case_dicom_dir, root_in); case_label is rel
\* with the separators replaced (a case is the root or an immediate
\* subdirectory, so rel has no separator); work_dir = join(work_root,
\* case_label).  For the root itself rel is ".", and work_root/. is the
\* directory work_root.
\* The subdirectories of the root are numbered in the order of their names;
\* these are the names.
DirNames == <<"sub1", "sub2", "sub3", "sub4">>

Named(path) == [n \in 1..Len(path) |-> DirNames[path[n]]]

WorkDir(case_dir) == join(WORK_ROOT, Named(relpath(case_dir, RootPath)))

NiftiIn(case_dir) == join(WorkDir(case_dir), <<"nifti_in">>)

NiftiOut(case_dir) == join(WorkDir(case_dir), <<"nifti_out">>)

\* a is a directory above b
IsAncestor(a, b) == Len(a) < Len(b) /\ SubSeq(b, 1, Len(a)) = a

\* shutil.rmtree(d, ignore_errors=True): everything below d goes; d itself
\* is created again right after
Below(dirs, d) == {x \in dirs : IsAncestor(d, x)}

\* What earlier runs can have left under the work root: the working areas of
\* some of the subdirectories
LeftOver(tree) ==
    {{WorkDir(SubPath(n)) : n \in S} \cup {NiftiIn(SubPath(n)) : n \in S}
        \cup {WORK_ROOT} : S \in SUBSET (DOMAIN tree.subdirs)}

InitWork ==
    /\ callFn = "main.work_dirs"
    /\ \E rootFiles \in FileKindSets, present \in SUBSET (1..MaxSubdirs) :
          \E subdirs \in [present -> SubdirContents] :
              LET tree == [files |-> rootFiles, subdirs |-> subdirs]
              IN  \E left \in LeftOver(tree) \cup {{}} :
                      callIn = [status |-> "args", tree |-> tree, dirs |-> left]
    /\ callOut = NoCall
    /\ callPc = "call"

\* main: ensure_dir(work_root), find_case_dirs, SystemExit without cases
Work_FindCases ==
    /\ callFn = "main.work_dirs"
    /\ callPc = "call"
    /\ LET found == find_case_dirs(callIn.tree)
       IN  /\ callOut' = [status |-> IF found = <<>> THEN "raise" ELSE "ok",
                          cases |-> found, pos |-> 0,
                          dirs |-> callIn.dirs \cup {WORK_ROOT},
                          removed |-> [i \in 1..Len(found) |-> {}]]
           /\ callPc' = IF found = <<>> THEN "done" ELSE "loop"
    /\ UNCHANGED <<callFn, callIn>>
    /\ UNCHANGED <<batchVars, selVars, recVars>>

\* process_case for the next case, lines 608-624: the working directory is
\* removed when it exists and nifti_in, nifti_out are made
Work_CaseSetup ==
    /\ callFn = "main.work_dirs"
    /\ callPc = "loop"
    /\ LET i == callOut.pos + 1
           case_dir == callOut.cases[i]
           work_dir == WorkDir(case_dir)
           gone == IF work_dir \in callOut.dirs THEN Below(callOut.dirs, work_dir)
                   ELSE {}
       IN  /\ callOut' = [callOut EXCEPT
                              !.pos = i,
                              !.removed[i] = gone,
                              !.dirs = (callOut.dirs \ gone)
                                          \cup {work_dir, NiftiIn(case_dir),
                                                 NiftiOut(case_dir)}]
           /\ callPc' = IF i = Len(callOut.cases) THEN "done" ELSE "loop"
    /\ UNCHANGED <<callFn, callIn>>
    /\ UNCHANGED <<batchVars, selVars, recVars>>

NextWork ==
    \/ Work_FindCases
    \/ Work_CaseSetup

\* ========================================================================
\* Specifications
\* ========================================================================
BatchStart == InitBatch /\ SelIdle /\ RecIdle /\ CallIdle

SpecBatch == BatchStart /\ [][NextBatch]_vars

SelStart == InitSel /\ BatchIdle /\ RecIdle /\ CallIdle

SpecSel == SelStart /\ [][NextSel]_vars

RecStart == InitRec /\ BatchIdle /\ SelIdle /\ CallIdle

SpecRec == RecStart /\ [][NextRec]_vars

RotStart == InitRot /\ BatchIdle /\ SelIdle /\ RecIdle

SpecRot == RotStart /\ [][NextRot]_vars

InjStart == InitInj /\ BatchIdle /\ SelIdle /\ RecIdle

SpecInj == InjStart /\ [][NextInj]_vars

DiscStart == InitDisc /\ BatchIdle /\ SelIdle /\ RecIdle

SpecDisc == DiscStart /\ [][NextDisc]_vars

ExpStart == InitExp /\ BatchIdle /\ SelIdle /\ RecIdle

SpecExp == ExpStart /\ [][NextExp]_vars

CatStart == InitCat /\ BatchIdle /\ SelIdle /\ RecIdle

SpecCat == CatStart /\ [][NextCat]_vars

ToolStart == InitTool /\ BatchIdle /\ SelIdle /\ RecIdle

SpecTool == ToolStart /\ [][NextTool]_vars

WorkStart == InitWork /\ BatchIdle /\ SelIdle /\ RecIdle

SpecWork == WorkStart /\ [][NextWork]_vars

\* ========================================================================
\* Claims
\* ========================================================================

\* ------------------------------------------------------------------------
\* C1: in the batch run, when the pipeline of case i raises, every case after
\* i in the list is still attempted: the batch never stops at the first
\* failing case.  Stated on the terminated run.
C1_FailureIsolation ==
    (prog = "multi2" /\ mainStatus \in {"finished", "raised"} /\ cases # <<>>)
        => \A i \in attempted :
              failAt[i] # "none" => \A j \in (i+1)..Len(cases) : j \in attempted

\* ------------------------------------------------------------------------
\* C2: once the processing of a case has ended (success or raise), its
\* working directory no longer exists, unless retention was requested.
C2_WorkDirRemoved ==
    \A i \in ended :
        ~keep => (IF prog = "multi2" THEN WorkDirOf(i) ELSE FullWorkDir) \notin workDirs

\* ------------------------------------------------------------------------
\* C3: find_defaced_nifti fails, and returns no path, whenever the single
\* chosen candidate has the shape of the input volume and no voxel differs.
C3_NoOpRejected ==
    (variant = "multi2" /\ selPc = "done" /\ selResult.status = "ok")
        => ~(/\ outFiles[selResult.chosen].shape = inVol.shape
             /\ \A i \in 1..Len(inVol.vox) :
                    outFiles[selResult.chosen].vox[i] = inVol.vox[i])

\* ------------------------------------------------------------------------
\* C4: with a modified volume of M < N planes along the matched axis,
\* reinjection writes exactly N files: the first M (catalog order) carry the
\* corresponding plane of the volume, each of the last N - M carries the
\* original payload of its source slice, all keep their source's metadata.
SlicePlanes(v, dim) == IF dim = 0 THEN v.at ELSE MoveAxis20(v).at

SameMetadata(w, ds) ==
    /\ w.file = ds.file /\ w.suid = ds.suid /\ w.z = ds.z
    /\ w.Rows = ds.Rows /\ w.Columns = ds.Columns

C4_ShortVolume ==
    (recPc = "done" /\ volKind = "modified" /\ recResult.status = "ok"
        /\ recResult.n_nifti < Len(groups[recResult.suid]))
        => LET series == groups[recResult.suid]
               N == Len(series)
               M == recResult.n_nifti
           IN  /\ Cardinality(DOMAIN outDicom) = N
               /\ \A i \in 1..N :
                     /\ series[i].file \in DOMAIN outDicom
                     /\ SameMetadata(outDicom[series[i].file], series[i])
               /\ \A i \in 1..M :
                     /\ outDicom[series[i].file].hasPixelData
                     /\ outDicom[series[i].file].PixelData
                            = Rot90K(SlicePlanes(arr, recResult.dim)[i], recResult.k)
               /\ \A i \in (M + 1)..N :
                     /\ outDicom[series[i].file].hasPixelData
                     /\ outDicom[series[i].file].PixelData = DiskPixels(series[i])

\* ------------------------------------------------------------------------
\* C5: round trip on identity input: exporting a series of N slices and
\* reinjecting the unmodified volume gives N output slices, each with the
\* payload of the corresponding input slice.  Stated for a case directory
\* holding that one series.
C5_IdentityRoundTrip ==
    (recPc = "done" /\ volKind = "export" /\ Len(groups) = 1)
        => /\ recResult.status = "ok"
           /\ Cardinality(DOMAIN outDicom) = Len(groups[1])
           /\ \A z \in 1..Len(groups[1]) :
                 /\ groups[1][z].file \in DOMAIN outDicom
                 /\ outDicom[groups[1][z].file].hasPixelData
                 /\ outDicom[groups[1][z].file].PixelData = DiskPixels(groups[1][z])

\* ------------------------------------------------------------------------
\* C6: run_cta_deface fails if and only if the output directory holds no
\* volume-format file after the external process returned, whatever the exit
\* status was.
VolumeFilesOut == {f \in DOMAIN outFiles : IsVolumeName(f)}

C6_FailsIffNoVolume ==
    (invoked # "none" /\ rc # -1)
        => /\ invoked \in {"ok", "raise"}
           /\ (invoked = "raise" <=> VolumeFilesOut = {})

\* a non-zero exit status with a volume left behind, and the call returned
C6_Witness == invoked = "ok" /\ rc = 1 /\ VolumeFilesOut # {}

\* ------------------------------------------------------------------------
\* C7: selection works in tiers over the volume files: the files named
\* "defaced" and not "mask" if there are any, else the files not named
\* "mask"; it fails when no file without a mask marker exists.  A directory
\* holding <stem>_mask and <stem>_defaced for input <stem>_0000 yields
\* <stem>_defaced; a directory of masks only is an error.
HasMarker(f, w) == Contains(Lower(f), w)

DefacedTier == {f \in VolumeFilesOut : HasMarker(f, W_defaced) /\ ~HasMarker(f, W_mask)}

NonMaskTier == {f \in VolumeFilesOut : ~HasMarker(f, W_mask)}

Tier == IF DefacedTier # {} THEN DefacedTier ELSE NonMaskTier

SelectionDone == variant = "multi2" /\ selPc = "done" /\ invoked = "ok"

C7_Tiers ==
    SelectionDone
        => /\ (NonMaskTier = {} <=> selResult = RaiseResult("OnlyMasks"))
           /\ (selResult.status = "ok" => selResult.chosen \in Tier)
           /\ \A st \in {S_a, S_ab} :
                 (/\ VolumeFilesOut = {st \o S_mask \o ExtNiiGz, st \o S_defaced \o ExtNiiGz}
                  /\ nifti_input = st \o S_0000 \o ExtNiiGz)
                     => selResult = [status |-> "ok",
                                     chosen |-> st \o S_defaced \o ExtNiiGz,
                                     check |-> selResult.check]

\* a defaced file chosen although another file without mask marker was there
C7_Witness ==
    /\ SelectionDone /\ selResult.status = "ok"
    /\ DefacedTier # {} /\ NonMaskTier # DefacedTier
    /\ selResult.chosen \in DefacedTier

\* ------------------------------------------------------------------------
\* C8: within the tier, when some candidate's name without the volume
\* extension starts with the input's stem, only those stay; selection fails
\* as ambiguous if and only if more than one candidate remains, and otherwise
\* returns the one that remains.
NameStem(f) ==
    IF EndsWith(f, ExtNiiGz) THEN DropLast(f, 7)
    ELSE IF EndsWith(f, ExtNii) THEN DropLast(f, 4) ELSE f

InputStem ==
    IF EndsWith(NameStem(nifti_input), S_0000) THEN DropLast(NameStem(nifti_input), 5)
    ELSE NameStem(nifti_input)

StemTier == {f \in Tier : StartsWith(NameStem(f), InputStem)}

Remaining == IF StemTier # {} THEN StemTier ELSE Tier

HasCount(n) == \E s \in 1..Len(groups) : Len(groups[s]) = n

ChosenCount == Len(groups[recResult.suid])

Dist(s) ==
    Min(Abs(Len(groups[s]) - arr.shape[1]), Abs(Len(groups[s]) - arr.shape[3]))

NoExactMatch == ~HasCount(arr.shape[1]) /\ ~HasCount(arr.shape[3])

C10_ClosestMatch ==
    (recPc = "done" /\ NoExactMatch)
        => /\ \A t \in 1..Len(groups) : Dist(recResult.suid) <= Dist(t)
           /\ \A t \in 1..(recResult.suid - 1) : Dist(t) > Dist(recResult.suid)
           /\ recResult.dim =
                 (IF Abs(ChosenCount - arr.shape[1]) <= Abs(ChosenCount - arr.shape[3])
                  THEN 0 ELSE 2)

\* two series of different length at the same smallest distance
C10_Witness ==
    /\ recPc = "done" /\ NoExactMatch /\ Len(groups) >= 2
    /\ \E t \in 1..Len(groups) :
          /\ t # recResult.suid
          /\ Dist(t) = Dist(recResult.suid)
          /\ Len(groups[t]) # ChosenCount

\* ------------------------------------------------------------------------
\* C11  The rotation handed to reinjection lies in the set its mode allows:
\* 0 alone when the search is disabled, 0, 1 or 3 in the restricted mode,
\* 0 to 3 in the full mode; and it is 0 whenever the two representative
\* planes differ in shape or there is no reference plane.
\* ------------------------------------------------------------------------
RotDone == callFn = "_determine_best_rotation" /\ callPc = "done"

ModeSet(mode) ==
    IF mode = "none" THEN {0}
    ELSE IF mode = "auto90" THEN {0, 1, 3}
    ELSE IF mode = "auto_all" THEN {0, 1, 2, 3}
    ELSE {0, 1, 2, 3}

NoComparison ==
    \/ callIn.sample_orig_slice = NoPlane
    \/ Shape2(callIn.sample_def_slice) # Shape2(callIn.sample_orig_slice)

C11_RotationAllowed ==
    RotDone =>
        /\ callOut.k \in ModeSet(callIn.mode)
        /\ (NoComparison => callOut.k = 0)

C11_Witness ==
    /\ RotDone
    /\ callIn.mode = "auto90"
    /\ ~NoComparison
    /\ callOut.k = 3

\* ------------------------------------------------------------------------
\* C12  With the search enabled and two planes of one shape, the rotation
\* returned has the least mean squared difference among the allowed
\* rotations whose rotated plane has the reference shape, the first such
\* rotation in enumeration order on ties; so it is 0 when the modified
\* plane equals the original one.
\* ------------------------------------------------------------------------
Enumeration(mode) == IF mode = "auto90" THEN <<0, 1, 3>> ELSE <<0, 1, 2, 3>>

\* the squared differences summed; their mean divides by one element count
Difference(k) ==
    SqErr(Rot90K(callIn.sample_def_slice, k), callIn.sample_orig_slice)

Fits(k) ==
    Shape2(Rot90K(callIn.sample_def_slice, k)) = Shape2(callIn.sample_orig_slice)

SearchCase ==
    /\ RotDone
    /\ callIn.mode \in {"auto90", "auto_all"}
    /\ ~NoComparison

C12_LeastError ==
    SearchCase =>
        LET en == Enumeration(callIn.mode)
        IN  /\ \E i \in 1..Len(en) :
                  /\ en[i] = callOut.k
                  /\ Fits(en[i])
                  /\ \A j \in 1..Len(en) :
                         Fits(en[j]) =>
                             /\ Difference(en[i]) <= Difference(en[j])
                             /\ (j < i => Difference(en[j]) > Difference(en[i]))
            /\ (callIn.sample_def_slice = callIn.sample_orig_slice => callOut.k = 0)

C12_Witness ==
    /\ SearchCase
    /\ callIn.mode = "auto_all"
    /\ callOut.k = 1
    /\ Difference(1) = Difference(3)
    /\ Difference(1) < Difference(0)

\* ------------------------------------------------------------------------
\* C13  The rotation search compares the modified plane at the middle index
\* of the overlap with the original plane of the chosen series at that same
\* index.
\* ------------------------------------------------------------------------
C13_SameIndex ==
    recPc = "done" => recResult.sample_ref_index = recResult.idx_mid

\* ------------------------------------------------------------------------
\* C15  Reinjection writes value copies: every dataset the series catalog
\* holds has the same fields after reinjection as before it (PixelData, the
\* VR of PixelData and the transfer syntax included).
\* ------------------------------------------------------------------------
C15_CatalogUntouched ==
    [][recPc' = "done" => groups' = groups]_vars

\* ------------------------------------------------------------------------
\* C14  For every slice of the overlap: if the shape of its rotated plane is
\* not (Rows, Columns) of its dataset, reinjection raises at that slice and
\* writes neither it nor any later slice; a file that is written with a
\* payload holds the rotated plane as it is, of the shape its header
\* declares.
\* ------------------------------------------------------------------------
InjDone == callFn = "reinject" /\ callPc = "done"

\* the plane reinjection puts into the slice at index i of the reference list
InjPlane(i) == Rot90K(SlicePlanes(callIn.vol, callOut.dim)[i], callOut.k)

Extents(ds) == <<ds.Rows, ds.Columns>>

OutName(i) ==
    IF callIn.variant = "convert" THEN <<0, i>> ELSE callIn.chosen_list[i].file

C14_ShapeChecked ==
    (InjDone /\ callIn.variant \in {"multi2", "convert"}) =>
        /\ \A i \in 1..callOut.n_update :
               IF \E j \in 1..i : Shape2(InjPlane(j)) # Extents(callIn.chosen_list[j])
               THEN callOut.status = "raise" /\ i \notin callOut.updated
               ELSE /\ i \in callOut.updated
                    /\ callOut.out[OutName(i)].PixelData = InjPlane(i)
        /\ \A f \in DOMAIN callOut.out :
               callOut.out[f].hasPixelData
                   => Shape2(callOut.out[f].PixelData) = Extents(callOut.out[f])

C14_Witness ==
    /\ InjDone
    /\ callIn.variant = "multi2"
    /\ callOut.status = "raise"
    /\ callOut.updated = {1}
    /\ Shape2(InjPlane(2)) # Extents(callIn.chosen_list[2])

\* ------------------------------------------------------------------------
\* C16  find_case_dirs returns exactly: the root, when it directly holds
\* slice files, followed by every immediate subdirectory that directly
\* holds such files, in sorted name order, each at most once; a directory
\* two or more levels below the root is never returned.
\* ------------------------------------------------------------------------
DiscDone == callFn = "find_case_dirs" /\ callPc = "done"

HoldsSlices(d) == d.files \cap {"dcm", "readable"} # {}

CaseSubdirs == {n \in DOMAIN callIn.tree.subdirs : HoldsSlices(callIn.tree.subdirs[n])}

CaseCompleted == recPc = "done" /\ recResult.status = "ok"

ExpDone == callFn = "dicom_to_nifti" /\ callPc = "done"

Suffix0000 == <<"_", "0", "0", "0", "0", ".", "n", "i", "i", ".", "g", "z">>

C18_ExportName ==
    (ExpDone /\ callIn.series_ids # <<>>) =>
        /\ callOut.status = "ok"
        /\ callOut.warned = (Len(callIn.series_ids) > 1)
        /\ (callIn.variant \in {"multi2", "full"}
               => callOut.out_file = Head(callIn.series_ids) \o Suffix0000)
        /\ ((callIn.variant = "convert" /\ callIn.nnunet_style) =>
               /\ EndsWith(callOut.out_file, Suffix0000)
               /\ (callIn.is_dir
                      => callOut.out_file = Head(callIn.series_ids) \o Suffix0000)
               /\ ((~callIn.is_dir /\ EndsWith(callIn.output_path, Suffix0000))
                      => callOut.out_file = callIn.output_path))

C18_Witness ==
    /\ ExpDone
    /\ callIn.variant = "convert"
    /\ callIn.nnunet_style
    /\ ~callIn.is_dir
    /\ callIn.output_path = <<"a">> \o Suffix0000
    /\ Len(callIn.series_ids) = 2
    /\ callOut.out_file = callIn.output_path

C18_WitnessPipeline ==
    /\ ExpDone
    /\ callIn.variant = "multi2"
    /\ callIn.series_ids = <<S_ab, S_a>>
    /\ callOut.warned
    /\ callOut.out_file = S_ab \o Suffix0000

\* ------------------------------------------------------------------------
\* C19  Reading the slice files of a directory skips, without failing,
\* every file whose header cannot be parsed, and fails if and only if no
\* file of the directory ends up in a series.
\* ------------------------------------------------------------------------
CatDone == callFn = "load_series" /\ callPc = "done"

\* the files a series can hold: parsed, and in the full-header variant
\* carrying a series identifier
Catalogued ==
    {i \in 1..Len(callIn.dir) :
        /\ callIn.dir[i].isfile /\ callIn.dir[i].parses
        /\ (callIn.variant \in {"multi2", "full"} => callIn.dir[i].suid # 0)}

InSomeSeries(i) ==
    \E s \in DOMAIN callOut.groups :
        \E j \in 1..Len(callOut.groups[s]) : callOut.groups[s][j] = i

C19_SkipUnparsed ==
    CatDone =>
        /\ (callOut.status = "raise") <=> (Catalogued = {})
        /\ (callOut.status = "ok" =>
               \A i \in 1..Len(callIn.dir) : InSomeSeries(i) <=> i \in Catalogued)

\* the same statement for load_dicom_series_groups alone
C19_FullHeaderVariant ==
    (CatDone /\ callIn.variant = "multi2") =>
        /\ (callOut.status = "raise") <=> (Catalogued = {})
        /\ (callOut.status = "ok" =>
               \A i \in 1..Len(callIn.dir) : InSomeSeries(i) <=> i \in Catalogued)

\* ------------------------------------------------------------------------
\* C20  The post-processing of run_CTA-DEFACE.main handles every raw
\* prediction: for each volume file of the output folder that is not itself
\* a _mask or _defaced file it writes <stem>_mask, writes <stem>_defaced
\* when <stem>_0000 is in the input folder, and removes the raw prediction;
\* a file already named _mask or _defaced is never taken for a prediction.
\* ------------------------------------------------------------------------
PostProcessed ==
    callFn = "run_CTA-DEFACE.main" /\ callPc = "done" /\ callIn.run.rc = 0

GzName(stem, marker) == stem \o marker \o <<".", "n", "i", "i", ".", "g", "z">>

IsGz(n) == EndsWith(n, GzName(<<>>, <<>>))

Derived(n) == EndsWith(n, GzName(<<>>, S_mask)) \/ EndsWith(n, GzName(<<>>, S_defaced))

RawPredictions == {n \in callOut.after_inference : IsGz(n) /\ ~Derived(n)}

C20_EveryPrediction ==
    PostProcessed =>
        /\ \A p \in RawPredictions :
               LET stem == DropLast(p, 7)
               IN  /\ GzName(stem, S_mask) \in callOut.output
                   /\ (GzName(stem, S_0000) \in callOut.input
                          => GzName(stem, S_defaced) \in callOut.output)
                   /\ p \notin callOut.output
        /\ \A q \in callOut.after_inference :
               Derived(q) =>
                   /\ q \in callOut.output
                   /\ GzName(DropLast(q, 7), S_mask) \notin callOut.output

\* ------------------------------------------------------------------------
\* C21  The slice order of every series of the catalog is non-decreasing in
\* the ordering key (the integer InstanceNumber when there is one, else the
\* third component of ImagePositionPatient when there is one, else 0), and
\* slices of equal key keep the order in which they were discovered.
\* ------------------------------------------------------------------------
OrderingKey(i) ==
    LET e == callIn.dir[i]
    IN  IF e.instKind = "int" THEN e.inst ELSE IF e.hasIpp THEN e.z ELSE 0

Catalogs == CatDone /\ callOut.status = "ok"

C21_StableOrder ==
    Catalogs =>
        \A s \in DOMAIN callOut.groups :
            LET lst == callOut.groups[s]
            IN  /\ \A a \in 1..Len(lst) : \A b \in (a + 1)..Len(lst) :
                       OrderingKey(lst[a]) <= OrderingKey(lst[b])
                /\ \A a \in 1..Len(lst) :
                       SelectSeq(lst, LAMBDA i : OrderingKey(i) = OrderingKey(lst[a]))
                           = SelectSeq(callOut.read,
                                       LAMBDA i : /\ OrderingKey(i) = OrderingKey(lst[a])
                                                  /\ \E b \in 1..Len(lst) : lst[b] = i)

\* three files of one key are kept in discovery order behind a file of a
\* smaller key that was discovered last
C21_Witness ==
    /\ Catalogs
    /\ callIn.variant = "multi2"
    /\ \E s \in DOMAIN callOut.groups :
          /\ callOut.groups[s] = <<3, 1, 2>>
          /\ OrderingKey(1) = OrderingKey(2)
          /\ OrderingKey(3) < OrderingKey(1)

\* ------------------------------------------------------------------------
\* C22  After run_cta_deface returned, every file of the output directory
\* was written by the external process of this invocation: what the
\* directory held before has been removed before the process started.
\* ------------------------------------------------------------------------
InvokerReturned == selPc \in {"select", "done"} /\ invoked = "ok"

C22_FreshOutput == InvokerReturned => DOMAIN outFiles \subseteq written

\* the same for run_cta_deface of cta_deface_pipeline_multi2 alone
C22_CleanedVariant ==
    (InvokerReturned /\ variant = "multi2") => DOMAIN outFiles \subseteq written

\* ------------------------------------------------------------------------
\* C23  When the array shape of the chosen candidate differs from the shape
\* of the input volume, find_defaced_nifti computes no voxel difference and
\* returns the candidate.
\* ------------------------------------------------------------------------
OtherShape(f) == outFiles[f].shape # inVol.shape

C23_ShapeBypass ==
    (SelectionDone /\ Cardinality(Remaining) = 1)
        => \A f \in Remaining :
              OtherShape(f) => selResult = [status |-> "ok", chosen |-> f,
                                            check |-> "skipped"]

\* a candidate of another shape was returned without comparison
C23_Witness ==
    /\ SelectionDone /\ selResult.status = "ok"
    /\ OtherShape(selResult.chosen)
    /\ selResult.check = "skipped"

\* ------------------------------------------------------------------------
\* C29  The volume handed to reinjection is a defaced volume: when the
\* external process left, of volume files, only the raw prediction
\* <stem> + extension and no <stem>_defaced, the selection hands nothing on.
\* ------------------------------------------------------------------------
RawOnly ==
    /\ VolumeFilesOut # {}
    /\ \A f \in VolumeFilesOut : NameStem(f) = InputStem

C29_NoRawReinjected == (SelectionDone /\ RawOnly) => selResult.status # "ok"

\* ------------------------------------------------------------------------
\* C25  Working directories are scoped per case: the working directories of
\* two distinct discovered cases (the root included when it is a case) are
\* different paths and neither lies above the other, so making a fresh
\* working area for one case removes no working area of another case.
\* ------------------------------------------------------------------------
Discovered == callFn = "main.work_dirs" /\ callPc \in {"loop", "done"}

CaseSet == {callOut.cases[i] : i \in 1..Len(callOut.cases)}

\* the setup of no case removed the working directory of another case
C25_NoCrossRemoval ==
    Discovered =>
        \A i \in 1..Len(callOut.cases) : \A d \in CaseSet \ {callOut.cases[i]} :
            WorkDir(d) \notin callOut.removed[i]

C25_ScopedWorkDirs ==
    /\ Discovered =>
           \A c \in CaseSet : \A d \in CaseSet \ {c} :
               WorkDir(c) # WorkDir(d) /\ ~IsAncestor(WorkDir(c), WorkDir(d))
    /\ C25_NoCrossRemoval

\* ------------------------------------------------------------------------
\* C24  Within one case of the batch pipeline the steps run in the order
\* export, invocation, selection, archive copy (when asked for),
\* reinjection, each one only after the one before it returned; after a
\* step that failed no later step of the case runs; and no step of a case
\* runs before the case before it has ended.
\* ------------------------------------------------------------------------
StepOrder ==
    IF archive THEN <<"setup", "export", "invoke", "select", "copy", "reinject">>
    ELSE <<"setup", "export", "invoke", "select", "reinject">>

\* the steps logged for case i, in the order they ran
StepsOfCase(i) ==
    LET mine == SelectSeq(stepLog, LAMBDA e : e[1] = i)
    IN  [n \in 1..Len(mine) |-> mine[n][2]]

Logged == {stepLog[n][1] : n \in 1..Len(stepLog)}

C24_StepOrder ==
    prog = "multi2" =>
        /\ \A i \in Logged :
               LET ran == StepsOfCase(i)
               IN  /\ Len(ran) <= Len(StepOrder)
                   /\ ran = SubSeq(StepOrder, 1, Len(ran))
                   /\ \A n \in 1..Len(ran) : ran[n] = failAt[i] => n = Len(ran)
        /\ \A n \in 1..Len(stepLog) : \A m \in (n + 1)..Len(stepLog) :
               stepLog[n][1] <= stepLog[m][1]
        /\ \A i \in Logged : \A j \in 1..(i - 1) :
               /\ j \in ended
               /\ StepsOfCase(j) = StepOrder

\* a first case ran all its steps with the archive copy, the second stopped
\* at its failing selection
C24_Witness ==
    /\ prog = "multi2" /\ archive /\ mainStatus = "raised"
    /\ Len(cases) >= 2 /\ idx = 2 /\ failAt[2] = "select"
    /\ StepsOfCase(1) = StepOrder
    /\ StepsOfCase(2) = <<"setup", "export", "invoke", "select">>

\* ------------------------------------------------------------------------
\* C26  In every variant of the catalog each regular file appears at most
\* once: at most once in the list of files read, in at most one series and
\* at most once in it, so the slice count of a series is the number of its
\* distinct files, also for the *.dcm files that both glob patterns match.
\* ------------------------------------------------------------------------
Occurrences(q, i) == Cardinality({n \in 1..Len(q) : q[n] = i})

SliceFiles(s) == {callOut.groups[s][n] : n \in 1..Len(callOut.groups[s])}

AtMostOnce ==
    /\ \A i \in 1..Len(callIn.dir) : Occurrences(callOut.read, i) <= 1
    /\ \A s \in DOMAIN callOut.groups :
           /\ \A i \in SliceFiles(s) : Occurrences(callOut.groups[s], i) = 1
           /\ Len(callOut.groups[s]) = Cardinality(SliceFiles(s))
           /\ \A t \in DOMAIN callOut.groups \ {s} : SliceFiles(s) \cap SliceFiles(t) = {}

C26_ListedOnce == Catalogs => AtMostOnce

\* the same for load_dicom_series_groups of cta_deface_pipeline_multi2 alone
C26_DedupVariant == (Catalogs /\ callIn.variant = "multi2") => AtMostOnce

\* ------------------------------------------------------------------------
\* C27  In a case directory with several series, the series whose slices
\* reinjection writes is the series that was exported, also when two series
\* have the same slice count or another series has as many slices as the
\* first extent of the volume.
\* ------------------------------------------------------------------------
SlicesWritten == recPc = "done" /\ recResult.updated # {}

C27_ExportedSeries == SlicesWritten => recResult.suid = exported

\* ------------------------------------------------------------------------
\* C28  Reinjection is all-or-nothing with respect to shape errors: when it
\* raises because a plane does not have the extents its slice declares, the
\* call has written no output slice file, also for a series whose slices
\* declare differing extents.
\* ------------------------------------------------------------------------
ShapeErrorRaised ==
    /\ InjDone /\ callOut.status = "raise"
    /\ \/ callIn.variant = "multi2"
       \/ callIn.variant = "full" /\ callOut.err = "SliceShape"

C28_AllOrNothing == ShapeErrorRaised => DOMAIN callOut.out = {}

\* ------------------------------------------------------------------------
\* C30  In cta_deface_pipeline_full, reinjection writes slices only when the
\* extent of the volume along the chosen slice axis equals the slice count
\* of the chosen series; when the series was picked by the closest-match
\* branch the call fails before any slice file is written.
\* ------------------------------------------------------------------------
FullInjDone == InjDone /\ callIn.variant = "full"

ExtentAlong(dim) == callIn.vol.shape[dim + 1]

ExactCount == ExtentAlong(0) = Len(callIn.chosen_list)
                  \/ ExtentAlong(2) = Len(callIn.chosen_list)

C30_CountGuard ==
    FullInjDone =>
        /\ (DOMAIN callOut.out # {} \/ callOut.updated # {})
               => ExtentAlong(callOut.dim) = Len(callIn.chosen_list)
        /\ ~ExactCount
               => /\ callOut.branch = "closest"
                  /\ callOut.status = "raise"
                  /\ callOut.err = "SliceCount"
                  /\ DOMAIN callOut.out = {} /\ callOut.updated = {}
        /\ callOut.branch = "closest" => ~ExactCount

\* a series of two slices and a volume of extents 3 and 1: closest match,
\* the call raised and wrote nothing
C30_Witness ==
    /\ FullInjDone
    /\ Len(callIn.chosen_list) = 2
    /\ ExtentAlong(0) = 3 /\ ExtentAlong(2) = 1
    /\ callOut.branch = "closest"
    /\ callOut.status = "raise"
    /\ DOMAIN callOut.out = {}

====
